---- MODULE Spec2Model ----
(***************************************************************************)
(* A model of the constellational chart solver of Pilotvt/Synastry:        *)
(*   src/app/jyotish.py      compute_chart and its nested helpers           *)
(*   src/app/nodes.py        eclipse-anchored node interpolation            *)
(*   src/app/north_indian.py the 12-box layout                              *)
(*   src/iau_constellations/classify/ecliptic_arcs_j2000.py  the arc table  *)
(*                                                                         *)
(* Numbers.  The code works on floats; the model works on exact integers.  *)
(* A longitude is a whole number of units, Deg units to the degree.  Deg   *)
(* is a multiple of 3 (a third of a whole-degree quadrant is a whole       *)
(* number of units) and of every time gap up to MaxTime (the linear        *)
(* interpolation between two whole-degree table entries is a whole number  *)
(* of units), so every division the model performs on its inputs is exact. *)
(* Python's x % 360.0 is TLA+'s x % Circle (both give a result in          *)
(* [0, Circle) for a negative x).                                          *)
(*                                                                         *)
(* Python's None is the empty sequence, a present value x is <<x>>.        *)
(* Python lists are 0-based, TLA+ sequences 1-based: cusps[i] of the code  *)
(* is porphyry_cusps[i + 1] of the model.                                  *)
(***************************************************************************)
EXTENDS Integers, Sequences, FiniteSets, TLC

VARIABLES
    pc,              \* the position inside the operation being modelled
    asc_lon,         \* asc.lon_sidereal: the solved Ascendant longitude
    mc_roots,        \* the (root % 360, RA - LST at the root) pairs of the MC search
    mc_found,        \* what find_mc_lambda_by_ra returned (None or a root)
    mc_lambda,       \* the MC after the validation of jyotish.py:877-888
    porphyry_cusps,  \* the 12 cusps of compute_porphyry_cusps
    planet_lambda,   \* the longitude given to planet_house_position
    house_pos,       \* what planet_house_position returned
    sky_codes,       \* the external classifier: its code at each ecliptic sample
    ecl_arcs,        \* IAU_ECLIPTIC_ARCS: the constellation arc table
    arc_lambda,      \* the longitude given to iau_for_lon
    iau_result,      \* what iau_for_lon returned
    eclipse_file,    \* data/eclipse_nodes.json: None (unreadable) or its entries
    dt_utc,          \* the instant of the request
    nodes_out,       \* what calculate_nodes(dt_utc) returned or raised
    request,         \* data: the ChartRequest (its rahu_is_descending)
    environ,         \* os.environ's RAHU_IS_DESCENDING ("unset" without it)
    ephemeris,       \* the ephemeris provider as it answers this request
    node_fit,        \* chosen_rate: the node rate fitted from the samples
    hifi_codes,      \* the classifier's short code of each body's position
    asc,             \* the AscendantMC of the Ascendant
    lambdas_map,     \* body name -> ecliptic longitude
    rahu_lon,        \* calculate_nodes' first result, None after a failure
    ketu_lon,        \* calculate_nodes' second result, None after a failure
    nodes_error,     \* None, or the text of calculate_nodes' exception
    rahu_is_desc,    \* the labelling convention in force
    node_ra_speed,   \* the speed given to Ra, None while undefined
    node_ke_speed,   \* the speed given to Ke, None while undefined
    planet_rows,     \* the intermediate rows of the bodies
    arc_rows,        \* planet_rows as they were before the override
    mc,              \* the AscendantMC of the MC
    planet_constellations, \* what classify_planets returned
    houses,          \* the signs of houses 1..12
    planets,         \* the Planet models
    response,        \* None, or the ChartResponse returned
    exception,       \* "", or the text of the exception compute_chart raised
    arc_builds,      \* how often the arc table was built or loaded
    eclipse_loads,   \* how often the eclipse file was read and parsed
    requests,        \* how many requests the process has taken up
    arcs_disk,       \* ephe/iau_arcs.json and what building it would meet
    workers,         \* the request each worker thread is serving
    horizon,         \* the sky of the Ascendant search: altitude and azimuth
    scan_steps,      \* the steps of the scans that have run, in order
    intervals,       \* the brackets (la, lb) the last scan found
    next_interval,   \* the bracket the root loop is at
    roots,           \* the (root % 360, az) pairs found so far
    chosen_lon       \* None, or the longitude the search returned

houseVars == <<asc_lon, mc_roots, mc_found, mc_lambda, porphyry_cusps, planet_lambda, house_pos>>
arcVars == <<sky_codes, ecl_arcs, arc_lambda, iau_result>>
nodeVars == <<eclipse_file, dt_utc, nodes_out>>
inputVars == <<request, environ, ephemeris, node_fit, hifi_codes>>
nodeCalcVars ==
    <<rahu_lon, ketu_lon, nodes_error, rahu_is_desc, node_ra_speed, node_ke_speed>>
rowVars == <<planet_rows, arc_rows>>
outVars == <<mc, planet_constellations, houses, planets, response, exception>>
chartVars == <<inputVars, asc, lambdas_map, nodeCalcVars, rowVars, outVars>>
procVars == <<arc_builds, eclipse_loads, requests, arcs_disk, workers>>
ascVars == <<horizon, scan_steps, intervals, next_interval, roots, chosen_lon>>
vars == <<pc, houseVars, arcVars, nodeVars, chartVars, procVars, ascVars>>

----------------------------------------------------------------------------
(* Bounds of the model *)

\* instants of the eclipse table and of a query are 0..MaxTime
MaxTime == 4
\* the longitudes tried as inputs lie on a grid of GridPoints points
GridPoints == 12
\* the ecliptic is sampled in ArcSteps steps when every classification
\* sequence is tried (the code samples it in 3600 steps of 0.1 degree)
ArcSteps == 5
\* an eclipse table holds at most MaxEntries entries
MaxEntries == 3

----------------------------------------------------------------------------
(* Longitude algebra *)

RECURSIVE Factorial(_)
Factorial(n) == IF n <= 1 THEN 1 ELSE n * Factorial(n - 1)

\* units per degree (see the note on numbers above)
Deg == 3 * Factorial(MaxTime)
Circle == 360 * Deg

None == <<>>
Some(x) == <<x>>
IsNone(o) == Len(o) = 0
Val(o) == o[1]

Abs(x) == IF x < 0 THEN -x ELSE x
Min2(a, b) == IF a <= b THEN a ELSE b
Max2(a, b) == IF a >= b THEN a ELSE b
SetMin(S) == CHOOSE x \in S : \A y \in S : x <= y

\* norm360 of compute_porphyry_cusps; the same x % 360.0 is used everywhere
norm360(x) == x % Circle

\* abs(((a - b + 180.0) % 360.0) - 180.0): the angular distance, in [0, 180]
AngularDistance(a, b) == Abs(((a - b + 180 * Deg) % Circle) - 180 * Deg)

\* the whole-degree grid the inputs are drawn from
Grid == {((k * 360) \div GridPoints) * Deg : k \in 0..(GridPoints - 1)}

----------------------------------------------------------------------------
(* find_mc_lambda_by_ra, jyotish.py:593-641 *)

\* The search ends with roots, the zeros its root finder reached in scan
\* order.  The model holds each as the pair (root % 360, ra_minus_lst at the
\* root): RA - LST changes sign at the MC, where it is 0, and at the jump
\* from +180 to -180 half a circle away.

\* key of the sort of jyotish.py:640
ra_key(r) == Abs(((r[2] + 180 * Deg) % Circle) - 180 * Deg)

\* a plausible slip: the first root in scan order is returned
find_mc_lambda_by_ra_First(rts) ==
    IF rts # <<>> THEN Some(rts[1][1]) ELSE None

\* if roots: return sorted(roots, key = ...)[0]; return None
find_mc_lambda_by_ra(rts) ==
    IF rts # <<>>
    THEN LET best == SetMin({ra_key(rts[i]) : i \in 1..Len(rts)})
         IN  Some(rts[SetMin({i \in 1..Len(rts) : ra_key(rts[i]) = best})][1])
    ELSE None

----------------------------------------------------------------------------
(* The MC validation of compute_chart, jyotish.py:877-888 *)

\* a plausible slip: the fallback is taken only when no root was found
ValidatedMC_NoTolerance(asc_lambda, found) ==
    IF IsNone(found) THEN (asc_lambda + 90 * Deg) % Circle ELSE Val(found)

ValidatedMC(asc_lambda, found) ==
    IF IsNone(found)
    THEN (asc_lambda + 90 * Deg) % Circle
    ELSE LET diff == AngularDistance(Val(found), asc_lambda)
         IN  IF Abs(diff - 90 * Deg) > 30 * Deg
             THEN (asc_lambda + 90 * Deg) % Circle
             ELSE Val(found)

----------------------------------------------------------------------------
(* compute_porphyry_cusps, jyotish.py:643-674 *)

arc_len(a, b) == (b - a) % Circle

\* [q1, q2, q3, q4] of the code
quadrant_lengths(asc_lambda, m_lambda) ==
    LET A  == asc_lambda % Circle
        M  == m_lambda % Circle
        D  == (A + 180 * Deg) % Circle
        IC == (M + 180 * Deg) % Circle
    IN  <<arc_len(A, M), arc_len(M, D), arc_len(D, IC), arc_len(IC, A)>>

\* the two nested loops: cusp number k (0-based) is appended with the running
\* sum cumul, which then grows by a third of the quadrant k belongs to
RECURSIVE cusps_loop(_, _, _)
cusps_loop(quads, cumul, k) ==
    IF k = 12 THEN <<>>
    ELSE <<cumul>> \o cusps_loop(quads, cumul + (quads[(k \div 3) + 1] \div 3), k + 1)

\* a plausible slip: the quadrants are not trisected, every step is 30 degrees
compute_porphyry_cusps_Equal(asc_lambda, m_lambda) ==
    [k \in 1..12 |-> (asc_lambda % Circle) + (k - 1) * 30 * Deg]

compute_porphyry_cusps(asc_lambda, m_lambda) ==
    cusps_loop(quadrant_lengths(asc_lambda, m_lambda), asc_lambda % Circle, 0)

----------------------------------------------------------------------------
(* planet_house_position, jyotish.py:676-701 *)

\* while lam0 < base: lam0 += 360.0
RECURSIVE unwrap_up(_, _)
unwrap_up(lam0, base) == IF lam0 < base THEN unwrap_up(lam0 + Circle, base) ELSE lam0

\* while lam0 >= base + 360.0: lam0 -= 360.0
RECURSIVE unwrap_down(_, _)
unwrap_down(lam0, base) ==
    IF lam0 >= base + Circle THEN unwrap_down(lam0 - Circle, base) ELSE lam0

\* lam0 after the two loops: the longitude in the cycle that starts at cusps[0]
unwrapped_lambda(p_lambda, cusps) ==
    unwrap_down(unwrap_up(p_lambda % Circle, cusps[1]), cusps[1])

\* the interval of house i (1-based): [cusps[i-1], cusps[i]) and, for the
\* last one, [cusps[11], cusps[0] + 360)
cusp_a(cusps, i) == cusps[i]
cusp_b(cusps, i) == IF i < 12 THEN cusps[i + 1] ELSE cusps[1] + Circle

\* a plausible slip: the interval test is closed at both ends
in_house_Closed(lam0, a, b) == a <= lam0 /\ lam0 <= b

\* if a <= lam0 < b, jyotish.py:693
in_house(lam0, a, b) == a <= lam0 /\ lam0 < b

\* the result (i + 1, p, width) of the first interval that holds lam0, with
\* p = dist / width kept as the pair (dist, width); fallback marks the
\* return of jyotish.py:699-701
planet_house_position(p_lambda, cusps) ==
    LET lam0 == unwrapped_lambda(p_lambda, cusps)
        hits == {i \in 1..12 : in_house(lam0, cusp_a(cusps, i), cusp_b(cusps, i))}
    IN  IF hits # {}
        THEN LET i == SetMin(hits)
                 w == cusp_b(cusps, i) - cusp_a(cusps, i)
             IN  [houseIndex |-> i,
                  dist |-> IF w > 0 THEN lam0 - cusp_a(cusps, i) ELSE 0,
                  width |-> w, fallback |-> FALSE]
        ELSE [houseIndex |-> 1, dist |-> 0,
              width |-> IF Len(cusps) > 1 THEN cusps[2] - cusps[1] ELSE 30 * Deg,
              fallback |-> TRUE]

----------------------------------------------------------------------------
(* The external classifier (astropy's get_constellation) *)

\* The classifier is a pure function of the sky position.  The model holds
\* it as sky_codes, its short code at each of the samples 0, step, ...,
\* 360 degrees, and takes it to be constant from one sample to the next.
sky_step(codes) == Circle \div (Len(codes) - 1)
sky_code_at(codes, lam) == codes[((lam % Circle) \div sky_step(codes)) + 1]

\* get_constellation(coord) without short_name returns the full name
FullName(code) ==
    CASE code = "Psc" -> "Pisces"      [] code = "Ari" -> "Aries"
      [] code = "Tau" -> "Taurus"      [] code = "Gem" -> "Gemini"
      [] code = "Cnc" -> "Cancer"      [] code = "Leo" -> "Leo"
      [] code = "Vir" -> "Virgo"       [] code = "Lib" -> "Libra"
      [] code = "Sco" -> "Scorpius"    [] code = "Oph" -> "Ophiuchus"
      [] code = "Sgr" -> "Sagittarius" [] code = "Cap" -> "Capricornus"
      [] code = "Aqr" -> "Aquarius"    [] code = "Cet" -> "Cetus"
      [] OTHER -> "Unknown"

\* resolve_constellation(ra, dec) of the ecliptic point at lam,
\* constellations.py:5-8 as called from jyotish.py:257-259
resolve_constellation(codes, lam) == FullName(sky_code_at(codes, lam))

----------------------------------------------------------------------------
(* compute_ecliptic_arcs, ecliptic_arcs_j2000.py:17-54 *)

\* len(np.arange(0, 360 + step_deg, step_deg))
arange_len(step) == (Circle + step + step - 1) \div step

\* for lon, code in zip(lons[1:], codes[1:]): sample k (1-based) lies at
\* (k - 1) * step; a change of code closes the current arc at lon
RECURSIVE arcs_loop(_, _, _, _, _, _)
arcs_loop(codes, step, k, start_lon, current_code, arcs) ==
    IF k > Len(codes)
    THEN Append(arcs, [iau_code |-> current_code,
                       lon_start_deg |-> start_lon, lon_end_deg |-> Circle])
    ELSE LET lon == (k - 1) * step
         IN  IF codes[k] # current_code
             THEN arcs_loop(codes, step, k + 1, lon, codes[k],
                            Append(arcs, [iau_code |-> current_code,
                                          lon_start_deg |-> start_lon,
                                          lon_end_deg |-> lon]))
             ELSE arcs_loop(codes, step, k + 1, start_lon, current_code, arcs)

\* the arcs of the samples codes taken step apart (iau_name_ru, a display
\* label, is left out)
compute_ecliptic_arcs(codes, step) == arcs_loop(codes, step, 2, 0, codes[1], <<>>)

----------------------------------------------------------------------------
(* iau_for_lon, jyotish.py:244-260 *)

\* a plausible slip: the arc is closed at its end and open at its start
arc_inside_EndClosed(lam, a) ==
    LET start == a.lon_start_deg % Circle
        end   == a.lon_end_deg % Circle
    IN  IF start <= end THEN (lam > start /\ lam <= end)
                        ELSE (lam > start \/ lam <= end)

\* inside of jyotish.py:248-253
arc_inside(lam, a) ==
    LET start == a.lon_start_deg % Circle
        end   == a.lon_end_deg % Circle
    IN  IF start <= end THEN (lam >= start /\ lam < end)
                        ELSE (lam >= start \/ lam < end)

\* a plausible slip: without an arc the lookup gives up instead of asking
\* the external classifier
iau_for_lon_NoClassifier(lambda_deg, arcs, codes) ==
    LET lam  == lambda_deg % Circle
        hits == {i \in 1..Len(arcs) : arc_inside(lam, arcs[i])}
    IN  IF hits # {}
        THEN [code |-> arcs[SetMin(hits)].iau_code, fallback |-> FALSE]
        ELSE [code |-> "Unknown", fallback |-> TRUE]

\* the code of the first arc that holds lambda_deg % 360; without one, the
\* external classifier's name for the point (fallback marks that return)
iau_for_lon(lambda_deg, arcs, codes) ==
    LET lam  == lambda_deg % Circle
        hits == {i \in 1..Len(arcs) : arc_inside(lam, arcs[i])}
    IN  IF hits # {}
        THEN [code |-> arcs[SetMin(hits)].iau_code, fallback |-> FALSE]
        ELSE [code |-> resolve_constellation(codes, lam), fallback |-> TRUE]

----------------------------------------------------------------------------
(* nodes.py: the eclipse table and the node interpolation *)

\* what a call returns or raises: ok with its value, or the exception's text
Returned(v) == [ok |-> TRUE, val |-> v, error |-> ""]
Raised(msg) == [ok |-> FALSE, val |-> 0, error |-> msg]

\* load_eclipse_nodes, nodes.py:7-22: open() raises for an unreadable file
load_eclipse_nodes(file) ==
    IF IsNone(file) THEN Raised("No such file or directory") ELSE Returned(Val(file))

\* [n for n in nodes if n['node'] == label], nodes.py:30-31
RECURSIVE nodes_of(_, _)
nodes_of(node_list, label) ==
    IF node_list = <<>> THEN <<>>
    ELSE (IF Head(node_list).node = label THEN <<Head(node_list)>> ELSE <<>>)
         \o nodes_of(Tail(node_list), label)

\* a plausible slip: bisect_left, the entries strictly before dt
bisect_right_Left(node_list, dt) ==
    Cardinality({i \in 1..Len(node_list) : node_list[i].datetime < dt})

\* bisect_right over the datetimes of a time-sorted list: the number of
\* entries at or before dt, nodes.py:35
bisect_right(node_list, dt) ==
    Cardinality({i \in 1..Len(node_list) : node_list[i].datetime <= dt})

\* a plausible slip: an empty list is answered with longitude 0.0
first_node_longitude_Default(node_list) ==
    IF node_list = <<>> THEN Returned(0) ELSE Returned(node_list[1].node_longitude)

\* node_list[0]['node_longitude'], nodes.py:39: IndexError on an empty list
first_node_longitude(node_list) ==
    IF node_list = <<>> THEN Raised("list index out of range")
    ELSE Returned(node_list[1].node_longitude)

\* a plausible slip: both clamps return the first entry
interpolate_between_nodes_FirstTwice(dt, node_list) ==
    LET idx == bisect_right(node_list, dt)
    IN  IF idx = 0 \/ idx = Len(node_list)
        THEN first_node_longitude(node_list)
        ELSE LET prev_node == node_list[idx]
                 next_node == node_list[idx + 1]
                 td_prev   == dt - prev_node.datetime
                 td_total  == next_node.datetime - prev_node.datetime
                 p0        == prev_node.node_longitude
                 n0        == next_node.node_longitude
                 up_next   == n0 < p0 /\ p0 - n0 > 180 * Deg
                 up_prev   == ~up_next /\ n0 > p0 /\ n0 - p0 > 180 * Deg
                 lon_next  == IF up_next THEN n0 + Circle ELSE n0
                 lon_prev  == IF up_prev THEN p0 + Circle ELSE p0
             IN  IF td_total = 0 THEN Raised("float division by zero")
                 ELSE Returned((lon_prev + ((lon_next - lon_prev) * td_prev) \div td_total)
                               % Circle)

\* a plausible slip: the longitudes are interpolated as they stand, without
\* the adjustment across 0/360
interpolate_between_nodes_NoWrap(dt, node_list) ==
    LET idx == bisect_right(node_list, dt)
    IN  IF idx = 0
        THEN first_node_longitude(node_list)
        ELSE IF idx = Len(node_list)
        THEN Returned(node_list[Len(node_list)].node_longitude)
        ELSE LET prev_node == node_list[idx]
                 next_node == node_list[idx + 1]
                 td_prev   == dt - prev_node.datetime
                 td_total  == next_node.datetime - prev_node.datetime
                 lon_prev  == prev_node.node_longitude
                 lon_next  == next_node.node_longitude
             IN  IF td_total = 0 THEN Raised("float division by zero")
                 ELSE Returned((lon_prev + ((lon_next - lon_prev) * td_prev) \div td_total)
                               % Circle)

\* interpolate_between_nodes, nodes.py:33-68 (a zero td_total raises
\* ZeroDivisionError)
interpolate_between_nodes(dt, node_list) ==
    LET idx == bisect_right(node_list, dt)
    IN  IF idx = 0
        THEN first_node_longitude(node_list)
        ELSE IF idx = Len(node_list)
        THEN Returned(node_list[Len(node_list)].node_longitude)
        ELSE LET prev_node == node_list[idx]
                 next_node == node_list[idx + 1]
                 td_prev   == dt - prev_node.datetime
                 td_total  == next_node.datetime - prev_node.datetime
                 p0        == prev_node.node_longitude
                 n0        == next_node.node_longitude
                 up_next   == n0 < p0 /\ p0 - n0 > 180 * Deg
                 up_prev   == ~up_next /\ n0 > p0 /\ n0 - p0 > 180 * Deg
                 lon_next  == IF up_next THEN n0 + Circle ELSE n0
                 lon_prev  == IF up_prev THEN p0 + Circle ELSE p0
             IN  IF td_total = 0 THEN Raised("float division by zero")
                 ELSE Returned((lon_prev + ((lon_next - lon_prev) * td_prev) \div td_total)
                               % Circle)

\* a plausible slip: the Rahu position is averaged with the point opposite
\* the Ketu position
calculate_node_position_WithKetu(dt, nodes) ==
    LET rahu_nodes == nodes_of(nodes, "Rahu")
        ketu_nodes == nodes_of(nodes, "Ketu")
    IN  IF Len(rahu_nodes) > 0 /\ Len(ketu_nodes) > 0
        THEN LET rahu_pos == interpolate_between_nodes(dt, rahu_nodes)
                 ketu_pos == interpolate_between_nodes(dt, ketu_nodes)
             IN  IF ~rahu_pos.ok THEN rahu_pos
                 ELSE IF ~ketu_pos.ok THEN ketu_pos
                 ELSE Returned(((rahu_pos.val + ketu_pos.val + 180 * Deg) \div 2) % Circle)
        ELSE interpolate_between_nodes(dt, nodes)

\* calculate_node_position(dt, nodes), nodes.py:24-78: ketu_pos is computed
\* and dropped, so only an exception of it is seen
calculate_node_position(dt, nodes) ==
    LET rahu_nodes == nodes_of(nodes, "Rahu")
        ketu_nodes == nodes_of(nodes, "Ketu")
    IN  IF Len(rahu_nodes) > 0 /\ Len(ketu_nodes) > 0
        THEN LET rahu_pos == interpolate_between_nodes(dt, rahu_nodes)
                 ketu_pos == interpolate_between_nodes(dt, ketu_nodes)
             IN  IF ~rahu_pos.ok THEN rahu_pos
                 ELSE IF ~ketu_pos.ok THEN ketu_pos
                 ELSE rahu_pos
        ELSE interpolate_between_nodes(dt, nodes)

\* a plausible slip: the opposite node is not reduced mod 360
opposite_node_NoMod(rahu) == rahu + 180 * Deg

\* ketu_lon = (rahu_lon + 180) % 360, nodes.py:85
opposite_node(rahu) == (rahu + 180 * Deg) % Circle

\* calculate_nodes(dt), nodes.py:80-87: the pair (rahu_lon, ketu_lon)
calculate_nodes(dt, file) ==
    LET loaded == load_eclipse_nodes(file)
    IN  IF ~loaded.ok THEN loaded
        ELSE LET pos == calculate_node_position(dt, loaded.val)
             IN  IF ~pos.ok THEN pos
                 ELSE Returned(<<pos.val, opposite_node(pos.val)>>)

----------------------------------------------------------------------------
(* Signs, bodies and the fixed tables of compute_chart *)

\* SIGNS, north_indian.py:3
SIGNS == <<"Ar", "Ta", "Ge", "Cn", "Le", "Vi", "Li", "Sc", "Sg", "Cp", "Aq", "Pi">>

\* SIGNS.index(sign), 0-based as in the code
SignIndex(sign) == (CHOOSE i \in 1..12 : SIGNS[i] = sign) - 1

\* the keys of IAU_TO_SIGN, jyotish.py:273-287
ZodiacCodes ==
    {"Ari", "Tau", "Gem", "Cnc", "Leo", "Vir", "Lib", "Sco", "Oph", "Sgr",
     "Cap", "Aqr", "Psc"}

\* IAU_TO_SIGN, jyotish.py:273-287 (Ophiuchus counts as Scorpio)
IAU_TO_SIGN ==
    [c \in ZodiacCodes |->
        CASE c = "Ari" -> "Ar" [] c = "Tau" -> "Ta" [] c = "Gem" -> "Ge"
          [] c = "Cnc" -> "Cn" [] c = "Leo" -> "Le" [] c = "Vir" -> "Vi"
          [] c = "Lib" -> "Li" [] c = "Sco" -> "Sc" [] c = "Oph" -> "Sc"
          [] c = "Sgr" -> "Sg" [] c = "Cap" -> "Cp" [] c = "Aqr" -> "Aq"
          [] c = "Psc" -> "Pi"]

\* the bodies of planet_positions_icrs, ephemeris.py:19-29, in its order
EphBodies ==
    <<"Sun", "Moon", "Mercury", "Venus", "Mars", "Jupiter", "Saturn",
      "Uranus", "Neptune">>
EphBodySet == {EphBodies[i] : i \in 1..Len(EphBodies)}
BodyIndex(b) == CHOOSE i \in 1..Len(EphBodies) : EphBodies[i] = b

\* mapping, jyotish.py:894-896: the classical bodies and their abbreviations
ClassicalBodies == <<"Sun", "Moon", "Mercury", "Venus", "Mars", "Jupiter", "Saturn">>
ClassicalAbbrs == <<"Su", "Mo", "Me", "Ve", "Ma", "Ju", "Sa">>

\* body_to_abbr, jyotish.py:1019-1029
body_to_abbr ==
    [b \in EphBodySet |->
        CASE b = "Sun" -> "Su" [] b = "Moon" -> "Mo" [] b = "Mercury" -> "Me"
          [] b = "Venus" -> "Ve" [] b = "Mars" -> "Ma" [] b = "Jupiter" -> "Ju"
          [] b = "Saturn" -> "Sa" [] b = "Uranus" -> "Ur" [] b = "Neptune" -> "Ne"]

\* VEDIC_ASPECT_OFFSETS.get(name, [6]), jyotish.py:66-76 and :1125
VEDIC_ASPECT_OFFSETS(name) ==
    CASE name = "Ma" -> <<3, 6, 7>>
      [] name = "Ju" -> <<4, 6, 8>>
      [] name = "Sa" -> <<2, 6, 9>>
      [] name = "Ra" -> <<4, 6, 8>>
      [] OTHER -> <<6>>

\* speeds are whole multiples of 1e-7 degree per day
SpeedScale == 10 * 1000 * 1000
\* CANONICAL_NODE_SPEED = -0.0529539, jyotish.py:864
CANONICAL_NODE_SPEED == -529539
\* SPEED_EPS = 1e-4, jyotish.py:865
SPEED_EPS == 1000

----------------------------------------------------------------------------
(* The ephemeris provider, ephemeris.py:51-71 *)

\* planet_positions_icrs at the instant of the request: eph[key] of every
\* body is read in one loop, so one unavailable body, like a load error,
\* raises out of the whole call; get_planet_lambdas_j2000 (jyotish.py:294-301)
\* turns the positions into longitudes % 360
planet_lambdas(eph) ==
    IF eph.load_error THEN Raised("de421.bsp cannot be loaded")
    ELSE IF eph.missing # {} THEN Raised("body unavailable")
    ELSE Returned([b \in EphBodySet |-> eph.pos[b] % Circle])

\* the same one hour later, jyotish.py:900
planet_lambdas_dt(eph) ==
    IF eph.load_error THEN Raised("de421.bsp cannot be loaded")
    ELSE IF eph.missing # {} \/ ~eph.dt_ok THEN Raised("body unavailable")
    ELSE Returned([b \in EphBodySet |-> (eph.pos[b] + eph.motion[b]) % Circle])

\* classify_planets(dt_iso_utc), point_in_constellation.py:28-35: one entry
\* per body with the classifier's short code for the body's own position
classify_planets(eph, codes_of) ==
    IF eph.load_error THEN Raised("de421.bsp cannot be loaded")
    ELSE IF eph.missing # {} THEN Raised("body unavailable")
    ELSE Returned([i \in 1..Len(EphBodies) |->
                     [body |-> EphBodies[i], iau_code |-> codes_of[EphBodies[i]]]])

----------------------------------------------------------------------------
(* The Rahu/Ketu labelling and the node speed, jyotish.py:763-871 *)

\* bool(int(os.environ.get('RAHU_IS_DESCENDING', '0'))), False when int()
\* raises, jyotish.py:770-773
rahu_is_desc_env(env) ==
    CASE env = "unset" -> FALSE
      [] env = "0" -> FALSE
      [] env = "1" -> TRUE
      [] OTHER -> FALSE

\* a plausible slip: the environment is asked before the request
resolve_rahu_is_desc_EnvFirst(req_flag, env) ==
    IF rahu_is_desc_env(env) THEN TRUE
    ELSE IF ~IsNone(req_flag) THEN Val(req_flag)
    ELSE FALSE

\* a plausible slip: the server default is the descending convention
resolve_rahu_is_desc_DefaultDescending(req_flag, env) ==
    IF ~IsNone(req_flag) THEN Val(req_flag)
    ELSE IF rahu_is_desc_env(env) THEN TRUE
    ELSE TRUE

\* jyotish.py:778-784: the request's flag, else the environment, else False
resolve_rahu_is_desc(req_flag, env) ==
    IF ~IsNone(req_flag) THEN Val(req_flag)
    ELSE IF rahu_is_desc_env(env) THEN TRUE
    ELSE FALSE

\* a plausible slip: the swapped branch writes ketu_lon under both names
label_nodes_BothKetu(is_desc, r_lon, k_lon) ==
    IF is_desc THEN [Rahu |-> k_lon, Ketu |-> k_lon]
               ELSE [Rahu |-> r_lon, Ketu |-> k_lon]

\* jyotish.py:787-792: what is written to lambdas_map['Rahu'] and ['Ketu']
label_nodes(is_desc, r_lon, k_lon) ==
    IF is_desc THEN [Rahu |-> k_lon, Ketu |-> r_lon]
               ELSE [Rahu |-> r_lon, Ketu |-> k_lon]

\* a plausible slip: the fitted rate is kept however small, and only a
\* missing one is replaced
node_speed_NoFloor(chosen_rate) ==
    IF IsNone(chosen_rate) THEN CANONICAL_NODE_SPEED ELSE Val(chosen_rate)

\* jyotish.py:855-871: the fitted rate, 0.0 without one, and the canonical
\* rate when the magnitude is below SPEED_EPS
node_speed(chosen_rate) ==
    LET raw == IF IsNone(chosen_rate) THEN 0 ELSE Val(chosen_rate)
    IN  IF Abs(raw) < SPEED_EPS THEN CANONICAL_NODE_SPEED ELSE raw

----------------------------------------------------------------------------
(* The planet rows, jyotish.py:904-978 *)

\* resolve_constellation_from_lon, jyotish.py:873-875
resolve_constellation_from_lon(lam, arcs, codes) == iau_for_lon(lam, arcs, codes).code

\* next((a for a in IAU_ECLIPTIC_ARCS if a.get('iau_code') == iau_code), None)
first_arc_of(arcs, iau_code) ==
    LET hits == {i \in 1..Len(arcs) : arcs[i].iau_code = iau_code}
    IN  IF hits = {} THEN None ELSE Some(arcs[SetMin(hits)])

\* jyotish.py:914-924: max(0, 1 - 2 * dist / arc_width) as the fraction
\* num / den; a zero arc_width raises ZeroDivisionError
bell_strength(lam, arcs, iau_code) ==
    LET arc == first_arc_of(arcs, iau_code)
    IN  IF IsNone(arc) THEN Returned([kind |-> "bell", num |-> 0, den |-> 1])
        ELSE LET start     == Val(arc).lon_start_deg % Circle
                 end       == Val(arc).lon_end_deg % Circle
                 arc_width == (end - start + Circle) % Circle
                 mid       == (start + (arc_width \div 2)) % Circle
                 dist      == Min2(Abs((lam - mid + Circle) % Circle),
                                   Abs((mid - lam + Circle) % Circle))
             IN  IF arc_width = 0 THEN Raised("float division by zero")
                 ELSE Returned([kind |-> "bell",
                                num |-> Max2(0, arc_width - 2 * dist),
                                den |-> arc_width])

\* hann_strength(p) = 0.5 * (1 - cos(2 pi p)), jyotish.py:703-704, kept as
\* its argument p = num / den
hann_strength(dist, width) == [kind |-> "hann", num |-> dist, den |-> width]

\* jyotish.py:926-933: the speed in degrees per day from the longitude one
\* hour later, 0.0 without it
speed_deg_per_day(lam, lam_dt) ==
    IF IsNone(lam_dt) THEN 0
    ELSE LET dlam == ((Val(lam_dt) - lam + 180 * Deg) % Circle) - 180 * Deg
         IN  (dlam * 24 * SpeedScale) \div Deg

\* a plausible slip: a body that stands still counts as retrograde
is_retro_NonPositive(speed) == speed <= 0

\* is_retro = speed_deg_per_day < 0, jyotish.py:933 (nis_retro at :960)
is_retro(speed) == speed < 0

\* one row of a classical body, jyotish.py:905-948
planet_row(abbr, lam, lam_dt, cusps, arcs, codes) ==
    LET iau_code == resolve_constellation_from_lon(lam, arcs, codes)
        hp       == planet_house_position(lam, cusps)
        strength == bell_strength(lam, arcs, iau_code)
        speed    == speed_deg_per_day(lam, lam_dt)
    IN  IF ~strength.ok THEN strength
        ELSE Returned([name |-> abbr, lambdaDeg |-> lam, iauConstellation |-> iau_code,
                       houseIndex |-> hp.houseIndex,
                       houseProgressP |-> <<hp.dist, hp.width>>,
                       houseStrength |-> strength.val,
                       sidereal_speed |-> speed, is_retrograde |-> is_retro(speed)])

\* one row of a node, jyotish.py:951-978
node_row(abbr, lam, nspeed, cusps, arcs, codes) ==
    LET hp == planet_house_position(lam, cusps)
    IN  [name |-> abbr, lambdaDeg |-> lam,
         iauConstellation |-> resolve_constellation_from_lon(lam, arcs, codes),
         houseIndex |-> hp.houseIndex,
         houseProgressP |-> <<hp.dist, hp.width>>,
         houseStrength |-> hann_strength(hp.dist, hp.width),
         sidereal_speed |-> nspeed, is_retrograde |-> is_retro(nspeed)]

\* for body_name, abbr in mapping.items(): the rows of the bodies present in
\* lambdas_map, in the order of mapping; the first exception ends the loop
RECURSIVE classical_rows(_, _, _, _, _, _)
classical_rows(i, lmap, lmap_dt, cusps, arcs, codes) ==
    IF i > Len(ClassicalBodies) THEN Returned(<<>>)
    ELSE LET b    == ClassicalBodies[i]
             rest == classical_rows(i + 1, lmap, lmap_dt, cusps, arcs, codes)
         IN  IF b \notin DOMAIN lmap THEN rest
             ELSE LET row == planet_row(ClassicalAbbrs[i], lmap[b],
                                        IF b \in DOMAIN lmap_dt THEN Some(lmap_dt[b])
                                                                ELSE None,
                                        cusps, arcs, codes)
                  IN  IF ~row.ok THEN row
                      ELSE IF ~rest.ok THEN rest
                      ELSE Returned(<<row.val>> \o rest.val)

\* if 'Rahu' in lambdas_map: the rows of Ra and Ke, jyotish.py:950-978
node_rows(lmap, ra_speed, ke_speed, cusps, arcs, codes) ==
    IF "Rahu" \notin DOMAIN lmap THEN <<>>
    ELSE <<node_row("Ra", lmap["Rahu"], ra_speed, cusps, arcs, codes),
           node_row("Ke", lmap["Ketu"], ke_speed, cusps, arcs, codes)>>

----------------------------------------------------------------------------
(* The signs of the Ascendant and of the MC, jyotish.py:291 and :988-1071 *)

\* IAU_TO_SIGN.get(code, SIGNS[0]), jyotish.py:291 and :993
mapped_sign(code) == IF code \in DOMAIN IAU_TO_SIGN THEN IAU_TO_SIGN[code] ELSE SIGNS[1]

\* a plausible slip: the MC is left for the later fallback to fill in
mc_from_arcs_Deferred(mc_lam, arcs, codes) == None

\* jyotish.py:989-999: no MC without an mc_lambda, else the MC whose sign is
\* the mapped sign of the constellation at mc_lambda
mc_from_arcs(mc_lam, arcs, codes) ==
    IF IsNone(mc_lam) THEN None
    ELSE LET mc_iau_code == iau_for_lon(Val(mc_lam), arcs, codes).code
             mc_mapped_sign == mapped_sign(mc_iau_code)
             mc_sign_idx == IF \E i \in 1..12 : SIGNS[i] = mc_mapped_sign
                            THEN SignIndex(mc_mapped_sign) ELSE 0
         IN  Some([sign |-> SIGNS[mc_sign_idx + 1], lon_sidereal |-> Val(mc_lam)])

\* jyotish.py:1068-1071: the MC a quarter circle after the Ascendant, its
\* sign int(mc_lambda / 30) % 12
mc_from_longitude(asc_lon_sidereal) ==
    LET mc_lam == (asc_lon_sidereal + 90 * Deg) % Circle
        mc_sign_idx == (mc_lam \div (30 * Deg)) % 12
    IN  [sign |-> SIGNS[mc_sign_idx + 1], lon_sidereal |-> mc_lam]

----------------------------------------------------------------------------
(* The override of the high-fidelity classifier, jyotish.py:1030-1060 *)

\* iau_override_map: abbreviation -> code, for the entries with a code
iau_override_map(entries) ==
    LET with_code == {i \in 1..Len(entries) :
                         entries[i].iau_code # ""}
    IN  [a \in {body_to_abbr[entries[i].body] : i \in with_code} |->
            entries[CHOOSE i \in with_code :
                body_to_abbr[entries[i].body] = a].iau_code]

\* jyotish.py:1051-1060: the row with the classifier's code in its place
apply_override(row, override_map) ==
    IF row.name \in DOMAIN override_map
    THEN [row EXCEPT !.iauConstellation = override_map[row.name]]
    ELSE row

----------------------------------------------------------------------------
(* Houses and Planet models, jyotish.py:1073-1119 *)

\* houses, jyotish.py:1074-1078: the signs of houses 1..12
house_signs(asc_sign) ==
    LET asc_sign_idx == IF \E i \in 1..12 : SIGNS[i] = asc_sign
                        THEN SignIndex(asc_sign) ELSE 0
    IN  [i \in 1..12 |-> SIGNS[((asc_sign_idx + (i - 1)) % 12) + 1]]

\* a plausible slip: the house is always the Porphyry houseIndex of the row
planet_house_ByCusps(row, house_list) == row.houseIndex

\* house_idx of jyotish.py:1086-1103: the house whose sign is the sign of the
\* row's constellation; the row's houseIndex when the code has no sign
planet_house(row, house_list) ==
    IF row.iauConstellation \in DOMAIN IAU_TO_SIGN
    THEN LET sign_from_iau == IAU_TO_SIGN[row.iauConstellation]
             hits == {i \in 1..12 : house_list[i] = sign_from_iau}
         IN  IF hits = {} THEN row.houseIndex ELSE SetMin(hits)
    ELSE row.houseIndex

\* a plausible slip: without a sign in the table the sign is read off the
\* longitude, 30 degrees a sign
planet_sign_ByLongitude(row, house_list, asc_sign) ==
    IF row.iauConstellation \in DOMAIN IAU_TO_SIGN
    THEN IAU_TO_SIGN[row.iauConstellation]
    ELSE SIGNS[(((row.lambdaDeg % Circle) \div (30 * Deg)) % 12) + 1]

\* sign of jyotish.py:1095 and :1102
planet_sign(row, house_list, asc_sign) ==
    IF row.iauConstellation \in DOMAIN IAU_TO_SIGN
    THEN IAU_TO_SIGN[row.iauConstellation]
    ELSE LET asc_sign_idx_local == IF \E i \in 1..12 : SIGNS[i] = asc_sign
                                   THEN SignIndex(asc_sign) ELSE 0
         IN  SIGNS[((asc_sign_idx_local + (row.houseIndex - 1)) % 12) + 1]

\* Planet(...), jyotish.py:1104-1119
build_planet(row, house_list, asc_sign) ==
    [name |-> row.name,
     lon_sidereal |-> row.lambdaDeg % Circle,
     sign |-> planet_sign(row, house_list, asc_sign),
     house |-> planet_house(row, house_list),
     iau_constellation |-> row.iauConstellation,
     is_retrograde |-> row.is_retrograde,
     sidereal_speed |-> row.sidereal_speed,
     house_progress |-> row.houseProgressP,
     house_strength |-> row.houseStrength]

----------------------------------------------------------------------------
(* Aspects and the layout, jyotish.py:1121-1148 and north_indian.py:11-30 *)

\* a plausible slip: the target is counted from the planet's house number
\* without going back to a 0-based index first
planet_aspects_NoRebase(planet) ==
    LET offsets == VEDIC_ASPECT_OFFSETS(planet.name)
    IN  [k \in 1..Len(offsets) |->
            [planet |-> planet.name,
             from_house |-> planet.house,
             to_house |-> ((planet.house + offsets[k]) % 12) + 1,
             houses_away |-> offsets[k] + 1,
             label |-> planet.name]]

\* the aspect entries of one planet, in the order of its offsets
planet_aspects(planet) ==
    LET offsets == VEDIC_ASPECT_OFFSETS(planet.name)
    IN  [k \in 1..Len(offsets) |->
            [planet |-> planet.name,
             from_house |-> planet.house,
             to_house |-> ((planet.house - 1 + offsets[k]) % 12) + 1,
             houses_away |-> offsets[k] + 1,
             label |-> planet.name]]

\* aspects_raw: the entries of every planet, in the order of planets
RECURSIVE aspects_of(_)
aspects_of(planet_list) ==
    IF planet_list = <<>> THEN <<>>
    ELSE planet_aspects(Head(planet_list)) \o aspects_of(Tail(planet_list))

\* a plausible slip: an aspect is filed under the house it is cast from
RECURSIVE select_aspects_BySource(_, _)
select_aspects_BySource(aspects, house) ==
    IF aspects = <<>> THEN <<>>
    ELSE (IF Head(aspects).from_house = house THEN <<Head(aspects)>> ELSE <<>>)
         \o select_aspects_BySource(Tail(aspects), house)

\* the members of a sequence that satisfy a test, in order
RECURSIVE select_aspects(_, _)
select_aspects(aspects, house) ==
    IF aspects = <<>> THEN <<>>
    ELSE (IF Head(aspects).to_house = house THEN <<Head(aspects)>> ELSE <<>>)
         \o select_aspects(Tail(aspects), house)

RECURSIVE select_bodies(_, _)
select_bodies(planet_list, house) ==
    IF planet_list = <<>> THEN <<>>
    ELSE (IF Head(planet_list).house = house THEN <<Head(planet_list).name>> ELSE <<>>)
         \o select_bodies(Tail(planet_list), house)

\* north_indian_layout(house_signs, planets, house_aspects_map): box number
\* house holds the bodies whose house it is and house_aspects_map[house]
north_indian_layout(house_list, planet_list, aspects) ==
    [house \in 1..12 |->
        [sign |-> house_list[house], house |-> house,
         bodies |-> select_bodies(planet_list, house),
         aspects |-> select_aspects(aspects, house)]]

----------------------------------------------------------------------------
(* The values of the variables an operation does not use *)

NoHousePos == [houseIndex |-> 0, dist |-> 0, width |-> 0, fallback |-> FALSE]
NoIauResult == [code |-> "", fallback |-> FALSE]

ArcsIdle ==
    /\ sky_codes = <<>>
    /\ ecl_arcs = <<>>
    /\ arc_lambda = 0
    /\ iau_result = NoIauResult

NodesIdle ==
    /\ eclipse_file = None
    /\ dt_utc = 0
    /\ nodes_out = Raised("")

ChartIdle ==
    /\ request = None
    /\ environ = "unset"
    /\ ephemeris = None
    /\ node_fit = None
    /\ hifi_codes = None
    /\ asc = None
    /\ lambdas_map = <<>>
    /\ rahu_lon = None
    /\ ketu_lon = None
    /\ nodes_error = None
    /\ rahu_is_desc = FALSE
    /\ node_ra_speed = None
    /\ node_ke_speed = None
    /\ planet_rows = <<>>
    /\ arc_rows = <<>>
    /\ mc = None
    /\ planet_constellations = <<>>
    /\ houses = <<>>
    /\ planets = <<>>
    /\ response = None
    /\ exception = ""

AscIdle ==
    /\ horizon = None
    /\ scan_steps = <<>>
    /\ intervals = <<>>
    /\ next_interval = 0
    /\ roots = <<>>
    /\ chosen_lon = None

ProcIdle ==
    /\ arc_builds = 0
    /\ eclipse_loads = 0
    /\ requests = 0
    /\ arcs_disk = None
    /\ workers = <<>>

HousesIdle ==
    /\ asc_lon = 0
    /\ mc_roots = <<>>
    /\ mc_found = None
    /\ mc_lambda = 0
    /\ porphyry_cusps = <<>>
    /\ planet_lambda = 0
    /\ house_pos = NoHousePos

----------------------------------------------------------------------------
(* SpecHouses: MC validation, cusps and the placement of one longitude *)

\* the Ascendants tried: whole degrees in [0, 360)
AscInputs == {0, 10 * Deg, 95 * Deg, 200 * Deg, 359 * Deg}

\* RA - LST at the jump half a circle from the MC, just short of 180
JumpResidual == 180 * Deg - 1

\* the roots of the MC search, in scan order
ByLongitude(r1, r2) == IF r1[1] <= r2[1] THEN <<r1, r2>> ELSE <<r2, r1>>

\* the roots the MC search may end with: none; the MC alone; the jump alone
\* (the root finder raised on the MC's bracket); both
McRootInputs ==
    {<<>>}
    \cup {<<<<m, 0>>>> : m \in Grid}
    \cup {<<<<m, -JumpResidual>>>> : m \in Grid}
    \cup {ByLongitude(<<m, 0>>, <<(m + 180 * Deg) % Circle, JumpResidual>>) : m \in Grid}

\* the longitudes placed: the grid, every cusp, and values outside [0, 360)
LamInputs(cusps) ==
    Grid \cup {c % Circle : c \in {cusps[i] : i \in 1..12}}
         \cup {cusps[1] - 1, -1, -370 * Deg, Circle, Circle + 15 * Deg, 2 * Circle + 1}

InitHouses ==
    /\ pc = "solvemc"
    /\ asc_lon \in AscInputs
    /\ mc_roots \in McRootInputs
    /\ mc_found = None
    /\ mc_lambda = 0
    /\ porphyry_cusps = <<>>
    /\ planet_lambda = 0
    /\ house_pos = NoHousePos
    /\ ArcsIdle
    /\ NodesIdle
    /\ ChartIdle
    /\ ProcIdle
    /\ AscIdle

\* mc_lambda = find_mc_lambda_by_ra(dt_utc, data.longitude), jyotish.py:877
SolveMC ==
    /\ pc = "solvemc"
    /\ mc_found' = find_mc_lambda_by_ra(mc_roots)
    /\ pc' = "mc"
    /\ UNCHANGED <<asc_lon, mc_roots, mc_lambda, porphyry_cusps, planet_lambda, house_pos>>
    /\ UNCHANGED <<arcVars, nodeVars, chartVars>>
    /\ UNCHANGED procVars
    /\ UNCHANGED ascVars

\* jyotish.py:877-888
ValidateMC ==
    /\ pc = "mc"
    /\ mc_lambda' = ValidatedMC(asc_lon, mc_found)
    /\ pc' = "cusps"
    /\ UNCHANGED <<asc_lon, mc_roots, mc_found, porphyry_cusps, planet_lambda, house_pos>>
    /\ UNCHANGED <<arcVars, nodeVars, chartVars>>
    /\ UNCHANGED procVars
    /\ UNCHANGED ascVars

\* jyotish.py:890
ComputeCusps ==
    /\ pc = "cusps"
    /\ porphyry_cusps' = compute_porphyry_cusps(asc_lon % Circle, mc_lambda)
    /\ pc' = "rows"
    /\ UNCHANGED <<asc_lon, mc_roots, mc_found, mc_lambda, planet_lambda, house_pos>>
    /\ UNCHANGED <<arcVars, nodeVars, chartVars>>
    /\ UNCHANGED procVars
    /\ UNCHANGED ascVars

\* one call planet_house_position(lam, porphyry_cusps), jyotish.py:912
PlaceOne ==
    /\ pc = "rows"
    /\ \E L \in LamInputs(porphyry_cusps) :
          /\ planet_lambda' = L
          /\ house_pos' = planet_house_position(L, porphyry_cusps)
    /\ pc' = "placed"
    /\ UNCHANGED <<asc_lon, mc_roots, mc_found, mc_lambda, porphyry_cusps>>
    /\ UNCHANGED <<arcVars, nodeVars, chartVars>>
    /\ UNCHANGED procVars
    /\ UNCHANGED ascVars

NextHouses == SolveMC \/ ValidateMC \/ ComputeCusps \/ PlaceOne

SpecHouses == InitHouses /\ [][NextHouses]_vars

----------------------------------------------------------------------------
(* Claims about the cusps and the placement, checked under SpecHouses *)

\* C1: for every Ascendant A and every MC that compute_chart passes to
\* compute_porphyry_cusps, the 12 cusps start at A, are strictly increasing
\* and end below A + 360, so the 12 house widths are positive and sum to 360.
\* The code breaks it when the solved MC lies 90 degrees behind the
\* Ascendant: every quadrant is then 270 degrees long.
C1_CuspsSpanOneCircle ==
    pc \in {"rows", "placed"} =>
        LET c == porphyry_cusps
            w == [i \in 1..12 |-> IF i < 12 THEN c[i + 1] - c[i]
                                           ELSE c[1] + Circle - c[12]]
        IN  /\ Len(c) = 12
            /\ c[1] = asc_lon
            /\ \A i \in 1..11 : c[i] < c[i + 1]
            /\ c[12] < asc_lon + Circle
            /\ \A i \in 1..12 : w[i] > 0
            /\ w[1] + w[2] + w[3] + w[4] + w[5] + w[6]
                 + w[7] + w[8] + w[9] + w[10] + w[11] + w[12] = Circle

\* C2: planet_house_position is total: for every longitude L, L unwrapped
\* into [cusps[0], cusps[0] + 360) lies in exactly one interval
\* [cusps[i], cusps[i+1]) (cusps[12] := cusps[0] + 360), the returned house
\* is that interval's number in 1..12, the progress is in [0, 1), and the
\* fallback return is never taken.
C2_PlacementTotal ==
    pc = "placed" =>
        LET c    == porphyry_cusps
            lam0 == c[1] + ((planet_lambda - c[1]) % Circle)
            ends == [i \in 1..13 |-> IF i <= 12 THEN c[i] ELSE c[1] + Circle]
            in   == {i \in 1..12 : ends[i] <= lam0 /\ lam0 < ends[i + 1]}
        IN  /\ Cardinality(in) = 1
            /\ house_pos.houseIndex \in in
            /\ house_pos.houseIndex \in 1..12
            /\ house_pos.width = ends[house_pos.houseIndex + 1] - ends[house_pos.houseIndex]
            /\ house_pos.dist = lam0 - ends[house_pos.houseIndex]
            /\ 0 <= house_pos.dist /\ house_pos.dist < house_pos.width
            /\ ~house_pos.fallback

\* a negative longitude and one beyond 360 are placed, in a house after the
\* first and strictly inside it
C2_Witness ==
    /\ pc = "placed"
    /\ (planet_lambda < 0 \/ planet_lambda >= Circle)
    /\ house_pos.houseIndex > 1
    /\ house_pos.dist > 0

\* the four quadrant boundaries a chart with Ascendant A and MC M has, in
\* order, and the forward arc from boundary q to the next one
QuadrantBoundary(q) ==
    LET A == asc_lon % Circle
        M == mc_lambda % Circle
    IN  CASE q = 1 -> A
          [] q = 2 -> M
          [] q = 3 -> (A + 180 * Deg) % Circle
          [] q = 4 -> (M + 180 * Deg) % Circle
          [] OTHER -> A
ForwardArc(q) == (QuadrantBoundary((q % 4) + 1) - QuadrantBoundary(q)) % Circle

\* C16: compute_porphyry_cusps(A, M) gives cusps[0] = A, and cusps[3],
\* cusps[6], cusps[9] equal to M, A + 180 and M + 180 modulo 360; the two
\* cusps inside a quadrant lie one third and two thirds of the quadrant's
\* forward arc after its first cusp.
C16_QuadrantPoints ==
    pc \in {"rows", "placed"} =>
        /\ Len(porphyry_cusps) = 12
        /\ porphyry_cusps[1] = asc_lon % Circle
        /\ \A q \in 1..4 :
              LET first == porphyry_cusps[3 * (q - 1) + 1]
              IN  /\ first % Circle = QuadrantBoundary(q)
                  /\ 3 * (porphyry_cusps[3 * (q - 1) + 2] - first) = ForwardArc(q)
                  /\ 3 * (porphyry_cusps[3 * (q - 1) + 3] - first) = 2 * ForwardArc(q)

\* cusps of unequal quadrants, from an MC root that the validation kept
C16_Witness ==
    /\ pc = "rows"
    /\ ~IsNone(mc_found)
    /\ mc_lambda = Val(mc_found)
    /\ ForwardArc(1) # ForwardArc(2)
    /\ porphyry_cusps[4] - porphyry_cusps[1] = ForwardArc(1)
    /\ porphyry_cusps[7] - porphyry_cusps[4] = ForwardArc(2)

----------------------------------------------------------------------------
(* SpecArcs: the arc table of any classification sequence, and one lookup *)

ArcCodes == {"Psc", "Ari", "Tau"}

\* every classification of the samples 0, step, ..., 360; the last sample
\* is the sky point of the first one, and gets the same code
SampleSeqs ==
    {c \in [1..arange_len(Circle \div ArcSteps) -> ArcCodes] : c[Len(c)] = c[1]}

\* the longitudes looked up: the grid, every arc end, values outside [0, 360)
ArcQueries(arcs) ==
    Grid \cup {arcs[i].lon_start_deg : i \in 1..Len(arcs)}
         \cup {arcs[i].lon_end_deg - 1 : i \in 1..Len(arcs)}
         \cup {-1, Circle, Circle + 10 * Deg, -350 * Deg}

InitArcs ==
    /\ pc = "build"
    /\ sky_codes \in SampleSeqs
    /\ ecl_arcs = <<>>
    /\ arc_lambda = 0
    /\ iau_result = NoIauResult
    /\ HousesIdle
    /\ NodesIdle
    /\ ChartIdle
    /\ ProcIdle
    /\ AscIdle

\* IAU_ECLIPTIC_ARCS = compute_ecliptic_arcs(), jyotish.py:49
BuildArcs ==
    /\ pc = "build"
    /\ ecl_arcs' = compute_ecliptic_arcs(sky_codes, sky_step(sky_codes))
    /\ pc' = "lookup"
    /\ UNCHANGED <<sky_codes, arc_lambda, iau_result>>
    /\ UNCHANGED <<houseVars, nodeVars, chartVars>>
    /\ UNCHANGED procVars
    /\ UNCHANGED ascVars

\* one call iau_for_lon(lambda_deg), jyotish.py:244-260
LookupArc ==
    /\ pc = "lookup"
    /\ \E L \in ArcQueries(ecl_arcs) :
          /\ arc_lambda' = L
          /\ iau_result' = iau_for_lon(L, ecl_arcs, sky_codes)
    /\ pc' = "classified"
    /\ UNCHANGED <<sky_codes, ecl_arcs>>
    /\ UNCHANGED <<houseVars, nodeVars, chartVars>>
    /\ UNCHANGED procVars
    /\ UNCHANGED ascVars

NextArcs == BuildArcs \/ LookupArc

SpecArcs == InitArcs /\ [][NextArcs]_vars

\* C5: for an arc table that partitions the circle, as compute_ecliptic_arcs
\* builds it, and every longitude L, exactly one arc holds L mod 360 under
\* the half-open rule start <= L mod 360 < end, and iau_for_lon returns that
\* arc's code without the external fallback: a longitude equal to an arc's
\* start falls into that arc, one equal to its end into the next arc.
\* The code breaks it for the table of a single arc [0, 360): 360 % 360 is
\* 0, the arc holds nothing, and every lookup takes the fallback.
C5_ExactlyOneArc ==
    pc = "classified" =>
        LET lam == arc_lambda % Circle
            in  == {i \in 1..Len(ecl_arcs) :
                       /\ ecl_arcs[i].lon_start_deg <= lam
                       /\ lam < ecl_arcs[i].lon_end_deg}
        IN  /\ Cardinality(in) = 1
            /\ \A i \in in : iau_result.code = ecl_arcs[i].iau_code
            /\ ~iau_result.fallback

\* C6: for every sequence of per-sample classifications the arcs of
\* compute_ecliptic_arcs partition [0, 360): the first starts at 0, the last
\* ends at 360, each arc ends where the next starts, every arc has positive
\* width, and two consecutive arcs never carry the same code.
\* The code breaks it when the sample at 360 differs from the one before
\* it: the last arc is then the empty arc [360, 360).
C6_ArcsPartition ==
    pc \in {"lookup", "classified"} =>
        LET n == Len(ecl_arcs)
        IN  /\ n >= 1
            /\ ecl_arcs[1].lon_start_deg = 0
            /\ ecl_arcs[n].lon_end_deg = Circle
            /\ \A i \in 1..(n - 1) :
                   /\ ecl_arcs[i].lon_end_deg = ecl_arcs[i + 1].lon_start_deg
                   /\ ecl_arcs[i].iau_code # ecl_arcs[i + 1].iau_code
            /\ \A i \in 1..n : ecl_arcs[i].lon_start_deg < ecl_arcs[i].lon_end_deg

----------------------------------------------------------------------------
(* SpecNodes: calculate_nodes over every small eclipse table *)

\* the node longitudes of the table: whole degrees in [0, 360)
NodeLons == {20 * Deg, 100 * Deg, 350 * Deg}

\* the instants of the entries: the first instant, the last one, one between
EntryTimes == {0, 2, MaxTime}

EclipseEntries ==
    [datetime : EntryTimes, node : {"Rahu", "Ketu"}, node_longitude : NodeLons]

\* parse_eclipse_table.py:64 sorts the entries by their datetime; two
\* entries may share one
TimeSorted(t) == \A i \in 1..(Len(t) - 1) : t[i].datetime <= t[i + 1].datetime

EclipseTables ==
    UNION {{t \in [1..n -> EclipseEntries] : TimeSorted(t)} : n \in 0..MaxEntries}

InitNodes ==
    /\ pc = "nodes"
    /\ eclipse_file \in {None} \cup {Some(t) : t \in EclipseTables}
    /\ dt_utc \in 0..MaxTime
    /\ nodes_out = Raised("")
    /\ HousesIdle
    /\ ArcsIdle
    /\ ChartIdle
    /\ ProcIdle
    /\ AscIdle

\* rahu, ketu = calculate_nodes(dt), validate_nodes.py:26 and jyotish.py:720
CalculateNodes ==
    /\ pc = "nodes"
    /\ nodes_out' = calculate_nodes(dt_utc, eclipse_file)
    /\ pc' = "nodes_done"
    /\ UNCHANGED <<eclipse_file, dt_utc>>
    /\ UNCHANGED <<houseVars, arcVars, chartVars>>
    /\ UNCHANGED procVars
    /\ UNCHANGED ascVars

NextNodes == CalculateNodes

SpecNodes == InitNodes /\ [][NextNodes]_vars

\* C7: for every entry e of the eclipse table, calculate_nodes at e's instant
\* returns e's node_longitude exactly for the node e is labelled with (the
\* first result for a Rahu entry, the second for a Ketu entry), also when e
\* is the first or the last entry of its label.
\* The code breaks it for a Ketu entry: the second result is the Rahu
\* interpolation plus 180, whatever the Ketu entries say.
C7_ExactAtEntries ==
    (pc = "nodes_done" /\ ~IsNone(eclipse_file)) =>
        \A i \in 1..Len(Val(eclipse_file)) :
            LET e == Val(eclipse_file)[i]
            IN  e.datetime = dt_utc =>
                   /\ nodes_out.ok
                   /\ e.node = "Rahu" => nodes_out.val[1] = e.node_longitude
                   /\ e.node = "Ketu" => nodes_out.val[2] = e.node_longitude

----------------------------------------------------------------------------
(* Spec: one request through compute_chart, jyotish.py:78-1201 *)

\* the sky of the requests: the 13 constellations the ecliptic crosses, by
\* the whole degree at which each one starts
ZodiacStarts ==
    <<<<"Psc", 0>>, <<"Ari", 30>>, <<"Tau", 55>>, <<"Gem", 90>>, <<"Cnc", 120>>,
      <<"Leo", 140>>, <<"Vir", 175>>, <<"Lib", 220>>, <<"Sco", 240>>,
      <<"Oph", 250>>, <<"Sgr", 265>>, <<"Cap", 300>>, <<"Aqr", 330>>,
      <<"Psc", 350>>>>
ZodiacCodeAt(d) ==
    ZodiacStarts[CHOOSE i \in 1..Len(ZodiacStarts) :
        /\ ZodiacStarts[i][2] <= d
        /\ i < Len(ZodiacStarts) => d < ZodiacStarts[i + 1][2]][1]
\* its samples, 5 degrees apart, from 0 to 360
ZodiacSky == [k \in 1..73 |-> ZodiacCodeAt(((k - 1) * 5) % 360)]

\* the arc table of a process: computed from the sky, [] after a failure, or
\* read from a pre-seeded ephe/iau_arcs.json of one arc around the circle
ChartArcTables ==
    {compute_ecliptic_arcs(ZodiacSky, sky_step(ZodiacSky)), <<>>,
     <<[iau_code |-> "Psc", lon_start_deg |-> 0, lon_end_deg |-> Circle]>>}

\* the request's flag with the environment's RAHU_IS_DESCENDING: every
\* environment without a flag, and each flag against the environment
RequestCases ==
    {[rahu_is_descending |-> None, env |-> e] : e \in {"unset", "1", "yes"}}
    \cup {[rahu_is_descending |-> Some(TRUE), env |-> "unset"],
          [rahu_is_descending |-> Some(FALSE), env |-> "1"]}
ChartAscInputs == {10 * Deg, 252 * Deg}

\* bodies s, s + d, s + 2d, ... degrees along the ecliptic
PosCase(s, d) == [b \in EphBodySet |-> ((s + (BodyIndex(b) - 1) * d) % 360) * Deg]
\* one degree a day, backwards for the bodies of retro
MotionCase(retro) ==
    [b \in EphBodySet |-> IF b \in retro THEN -(Deg \div 24) ELSE Deg \div 24]

\* the provider: available, available but not one hour later, not loadable,
\* one body unavailable
EphCases ==
    {[load_error |-> FALSE, missing |-> {}, dt_ok |-> TRUE, pos |-> p, motion |-> m] :
        p \in {PosCase(12, 47), PosCase(252, 93)},
        m \in {MotionCase({}), MotionCase({"Mercury", "Saturn"})}}
    \cup {[load_error |-> FALSE, missing |-> {}, dt_ok |-> FALSE,
           pos |-> PosCase(12, 47), motion |-> MotionCase({})],
          [load_error |-> TRUE, missing |-> {}, dt_ok |-> TRUE,
           pos |-> PosCase(12, 47), motion |-> MotionCase({})],
          [load_error |-> FALSE, missing |-> {"Neptune"}, dt_ok |-> TRUE,
           pos |-> PosCase(12, 47), motion |-> MotionCase({})]}

\* the eclipse file: unreadable, empty, Rahu and Ketu entries across 0/360
ChartEclipseFiles ==
    {None, Some(<<>>),
     Some(<<[datetime |-> 0, node |-> "Rahu", node_longitude |-> 350 * Deg],
            [datetime |-> 2, node |-> "Ketu", node_longitude |-> 100 * Deg],
            [datetime |-> 4, node |-> "Rahu", node_longitude |-> 20 * Deg]>>)}
ChartTimes == {1, 3}

\* chosen_rate: no fit, a fit below SPEED_EPS, the usual fit, a forward one
\* of just SPEED_EPS
NodeFits == {None, Some(40), Some(-529000), Some(SPEED_EPS)}

\* the classifier's codes of the bodies: the code of the ecliptic point below
\* each body; the same with Moon and Jupiter across a tilted boundary, in
\* the next constellation; the same with the Moon off the zodiac, in Cetus
HifiCases(lmap) ==
    LET below == [b \in EphBodySet |-> sky_code_at(sky_codes, lmap[b])]
        next  == [b \in EphBodySet |->
                     IF b \in {"Moon", "Jupiter"}
                     THEN sky_code_at(sky_codes, lmap[b] + 30 * Deg) ELSE below[b]]
        cetus == [b \in EphBodySet |-> IF b = "Moon" THEN "Cet" ELSE below[b]]
    IN  {below, next, cetus}

Init ==
    /\ pc = "start"
    /\ sky_codes = ZodiacSky
    /\ ecl_arcs \in ChartArcTables
    /\ arc_lambda = 0
    /\ iau_result = NoIauResult
    /\ HousesIdle
    /\ NodesIdle
    /\ \E c \in RequestCases :
          /\ request = Some([rahu_is_descending |-> c.rahu_is_descending])
          /\ environ = c.env
    /\ ephemeris = None
    /\ node_fit = None
    /\ hifi_codes = None
    /\ asc = None
    /\ lambdas_map = <<>>
    /\ rahu_lon = None
    /\ ketu_lon = None
    /\ nodes_error = None
    /\ rahu_is_desc = FALSE
    /\ node_ra_speed = None
    /\ node_ke_speed = None
    /\ planet_rows = <<>>
    /\ arc_rows = <<>>
    /\ mc = None
    /\ planet_constellations = <<>>
    /\ houses = <<>>
    /\ planets = <<>>
    /\ response = None
    /\ exception = ""
    /\ ProcIdle
    /\ AscIdle

\* jyotish.py:240-292: the Ascendant, its constellation and its mapped sign
SolveAscendant ==
    /\ pc = "start"
    /\ \E a \in ChartAscInputs :
          LET asc_iau_code == iau_for_lon(a, ecl_arcs, sky_codes).code
              asc_mapped_sign == mapped_sign(asc_iau_code)
          IN  /\ asc_lon' = a
              /\ asc' = Some([sign |-> asc_mapped_sign, lon_sidereal |-> a,
                              constellation_iau |-> asc_iau_code])
    /\ pc' = "planets"
    /\ UNCHANGED <<mc_roots, mc_found, mc_lambda, porphyry_cusps, planet_lambda, house_pos>>
    /\ UNCHANGED <<arcVars, nodeVars, inputVars, lambdas_map, nodeCalcVars, rowVars, outVars>>
    /\ UNCHANGED procVars
    /\ UNCHANGED ascVars

\* jyotish.py:706-711
LoadPlanets ==
    /\ pc = "planets"
    /\ \E e \in EphCases :
          LET got == planet_lambdas(e)
          IN  /\ ephemeris' = Some(e)
              /\ lambdas_map' = IF got.ok THEN got.val ELSE <<>>
    /\ pc' = "nodes"
    /\ UNCHANGED <<request, environ, node_fit, hifi_codes>>
    /\ UNCHANGED <<houseVars, arcVars, nodeVars, asc, nodeCalcVars, rowVars, outVars>>
    /\ UNCHANGED procVars
    /\ UNCHANGED ascVars

\* jyotish.py:713-871
ComputeNodes ==
    /\ pc = "nodes"
    /\ \E f \in ChartEclipseFiles, t \in ChartTimes :
          LET got == calculate_nodes(t, f)
          IN  /\ eclipse_file' = f
              /\ dt_utc' = t
              /\ nodes_out' = got
              /\ IF got.ok
                 THEN \E fit \in NodeFits :
                        LET is_desc == resolve_rahu_is_desc(
                                          Val(request).rahu_is_descending, environ)
                            labelled == label_nodes(is_desc, got.val[1], got.val[2])
                        IN  /\ rahu_lon' = Some(got.val[1])
                            /\ ketu_lon' = Some(got.val[2])
                            /\ nodes_error' = None
                            /\ rahu_is_desc' = is_desc
                            /\ lambdas_map' =
                                  [b \in DOMAIN lambdas_map \cup {"Rahu", "Ketu"} |->
                                      IF b = "Rahu" THEN labelled.Rahu
                                      ELSE IF b = "Ketu" THEN labelled.Ketu
                                      ELSE lambdas_map[b]]
                            /\ node_fit' = fit
                            /\ node_ra_speed' = Some(node_speed(fit))
                            /\ node_ke_speed' = Some(node_speed(fit))
                 ELSE /\ rahu_lon' = None
                      /\ ketu_lon' = None
                      /\ nodes_error' = Some(got.error)
                      /\ UNCHANGED <<rahu_is_desc, lambdas_map, node_fit,
                                     node_ra_speed, node_ke_speed>>
    /\ pc' = "findmc"
    /\ UNCHANGED <<request, environ, ephemeris, hifi_codes>>
    /\ UNCHANGED <<houseVars, arcVars, asc, rowVars, outVars>>
    /\ UNCHANGED procVars
    /\ UNCHANGED ascVars

\* the roots of the MC search of a chart: none; the MC a quarter circle
\* behind the Ascendant; the MC 100 degrees ahead of it with the jump
ChartMcRoots(asc_lambda) ==
    {<<>>,
     <<<<(asc_lambda + 270 * Deg) % Circle, 0>>>>,
     ByLongitude(<<(asc_lambda + 100 * Deg) % Circle, 0>>,
                 <<(asc_lambda + 280 * Deg) % Circle, JumpResidual>>)}

\* mc_lambda = find_mc_lambda_by_ra(dt_utc, data.longitude), jyotish.py:877
FindMC ==
    /\ pc = "findmc"
    /\ \E rts \in ChartMcRoots(asc_lon) :
          /\ mc_roots' = rts
          /\ mc_found' = find_mc_lambda_by_ra(rts)
    /\ pc' = "mc"
    /\ UNCHANGED <<asc_lon, mc_lambda, porphyry_cusps, planet_lambda, house_pos>>
    /\ UNCHANGED <<arcVars, nodeVars, chartVars>>
    /\ UNCHANGED procVars
    /\ UNCHANGED ascVars

\* jyotish.py:893-978: the rows of the classical bodies, then of the nodes;
\* an exception of the loop leaves compute_chart
BuildRows ==
    /\ pc = "rows"
    /\ ~IsNone(asc)
    /\ LET got_dt == planet_lambdas_dt(Val(ephemeris))
           lambdas_map_dt == IF got_dt.ok THEN got_dt.val ELSE <<>>
           rows == classical_rows(1, lambdas_map, lambdas_map_dt,
                                  porphyry_cusps, ecl_arcs, sky_codes)
       IN  IF rows.ok
           THEN LET all_rows ==
                      rows.val \o node_rows(lambdas_map,
                          IF IsNone(node_ra_speed) THEN 0 ELSE Val(node_ra_speed),
                          IF IsNone(node_ke_speed) THEN 0 ELSE Val(node_ke_speed),
                          porphyry_cusps, ecl_arcs, sky_codes)
                IN  /\ planet_rows' = all_rows
                    /\ arc_rows' = all_rows
                    /\ pc' = "mcsign"
                    /\ UNCHANGED exception
           ELSE /\ exception' = rows.error
                /\ pc' = "raised"
                /\ UNCHANGED <<planet_rows, arc_rows>>
    /\ UNCHANGED <<mc, planet_constellations, houses, planets, response>>
    /\ UNCHANGED <<houseVars, arcVars, nodeVars, inputVars, asc, lambdas_map, nodeCalcVars>>
    /\ UNCHANGED procVars
    /\ UNCHANGED ascVars

\* jyotish.py:988-999: the MC and its sign from the arc table; mc_lambda
\* holds a number on every path out of the validation of :877-888
MCSign ==
    /\ pc = "mcsign"
    /\ mc' = mc_from_arcs(Some(mc_lambda), ecl_arcs, sky_codes)
    /\ pc' = "classify"
    /\ UNCHANGED <<planet_constellations, houses, planets, response, exception>>
    /\ UNCHANGED <<houseVars, arcVars, nodeVars, inputVars, asc, lambdas_map,
                   nodeCalcVars, rowVars>>
    /\ UNCHANGED procVars
    /\ UNCHANGED ascVars

\* jyotish.py:1006-1060: classify_planets is called outside any try, and its
\* codes replace the iauConstellation of the rows
ClassifyPlanets ==
    /\ pc = "classify"
    /\ IF planet_lambdas(Val(ephemeris)).ok
       THEN \E h \in HifiCases(planet_lambdas(Val(ephemeris)).val) :
               LET got == classify_planets(Val(ephemeris), h)
                   override_map == iau_override_map(got.val)
               IN  /\ hifi_codes' = Some(h)
                   /\ planet_constellations' = got.val
                   /\ planet_rows' = [i \in 1..Len(planet_rows) |->
                                         apply_override(planet_rows[i], override_map)]
                   /\ pc' = "planets_build"
                   /\ UNCHANGED exception
       ELSE /\ exception' = classify_planets(Val(ephemeris), <<>>).error
            /\ pc' = "raised"
            /\ UNCHANGED <<hifi_codes, planet_constellations, planet_rows>>
    /\ UNCHANGED <<request, environ, ephemeris, node_fit>>
    /\ UNCHANGED <<arc_rows, mc, houses, planets, response>>
    /\ UNCHANGED <<houseVars, arcVars, nodeVars, asc, lambdas_map, nodeCalcVars>>
    /\ UNCHANGED procVars
    /\ UNCHANGED ascVars

\* jyotish.py:1066-1119: the MC from longitude / 30 if there is none yet, the
\* houses from the Ascendant's sign, then one Planet per row
BuildPlanets ==
    /\ pc = "planets_build"
    /\ IF IsNone(mc)
       THEN /\ mc_lambda' = (Val(asc).lon_sidereal + 90 * Deg) % Circle
            /\ mc' = Some(mc_from_longitude(Val(asc).lon_sidereal))
       ELSE UNCHANGED <<mc_lambda, mc>>
    /\ LET hs == house_signs(Val(asc).sign)
       IN  /\ houses' = hs
           /\ planets' = [i \in 1..Len(planet_rows) |->
                             build_planet(planet_rows[i], hs, Val(asc).sign)]
    /\ pc' = "respond"
    /\ UNCHANGED <<planet_constellations, response, exception>>
    /\ UNCHANGED <<asc_lon, mc_roots, mc_found, porphyry_cusps, planet_lambda, house_pos>>
    /\ UNCHANGED <<arcVars, nodeVars, inputVars, asc, lambdas_map,
                   nodeCalcVars, rowVars>>
    /\ UNCHANGED procVars
    /\ UNCHANGED ascVars

\* jyotish.py:1121-1201: aspects, layout, debug_info and the ChartResponse
Respond ==
    /\ pc = "respond"
    /\ LET aspects_raw == aspects_of(planets)
       IN  response' =
              Some([ascendant |-> Val(asc),
                    mc |-> Val(mc),
                    planets |-> planets,
                    houses |-> houses,
                    boxes |-> north_indian_layout(houses, planets, aspects_raw),
                    aspects |-> aspects_raw,
                    planet_constellations |-> planet_constellations,
                    debug_info |->
                       [nodes_computed |-> ~IsNone(rahu_lon),
                        nodes |-> [Rahu |-> rahu_lon, Ketu |-> ketu_lon],
                        nodes_error |-> nodes_error,
                        rahu_is_desc_used |-> rahu_is_desc]])
    /\ pc' = "done"
    /\ UNCHANGED <<mc, planet_constellations, houses, planets, exception>>
    /\ UNCHANGED <<houseVars, arcVars, nodeVars, inputVars, asc, lambdas_map,
                   nodeCalcVars, rowVars>>
    /\ UNCHANGED procVars
    /\ UNCHANGED ascVars

Next ==
    \/ SolveAscendant
    \/ LoadPlanets
    \/ ComputeNodes
    \/ FindMC
    \/ ValidateMC
    \/ ComputeCusps
    \/ BuildRows
    \/ MCSign
    \/ ClassifyPlanets
    \/ BuildPlanets
    \/ Respond

Spec == Init /\ [][Next]_vars

----------------------------------------------------------------------------
(* The claims about the chart *)

\* the Planet of the chart with a given name, and whether there is one
Placed(name) == \E i \in 1..Len(Val(response).planets) : Val(response).planets[i].name = name
PlanetOf(name) ==
    Val(response).planets[CHOOSE i \in 1..Len(Val(response).planets) :
                              Val(response).planets[i].name = name]

\* the cusp interval of a longitude, found without planet_house_position:
\* the i with cusp i <= lam0 < cusp i + 1 (cusp 13 is cusp 1 plus 360), for
\* lam0 the longitude brought into [cusp 1, cusp 1 + 360)
CuspIntervals(lam) ==
    LET c    == porphyry_cusps
        lam0 == c[1] + ((lam - c[1]) % Circle)
    IN  {i \in 1..12 : c[i] <= lam0 /\ lam0 < (IF i < 12 THEN c[i + 1] ELSE c[1] + Circle)}

C4_OverrideKeepsHouse ==
    pc = "done" =>
        \A i \in 1..Len(Val(response).planets) :
            LET p   == Val(response).planets[i]
                was == build_planet(arc_rows[i], houses, Val(asc).sign)
            IN  /\ p.house = was.house
                /\ p.house_progress = was.house_progress
                /\ p.house_strength = was.house_strength

\* C8: in every chart where the nodes are placed, Ra and Ke are both placed,
\* their longitudes are in [0, 360) and 180 degrees apart modulo 360, under
\* either labelling convention.
C8_NodesOpposite ==
    pc = "done" =>
        /\ Placed("Ra") <=> Placed("Ke")
        /\ Placed("Ra") =>
              /\ PlanetOf("Ra").lon_sidereal \in 0..(Circle - 1)
              /\ PlanetOf("Ke").lon_sidereal \in 0..(Circle - 1)
              /\ (PlanetOf("Ke").lon_sidereal - PlanetOf("Ra").lon_sidereal) % Circle
                    = 180 * Deg

\* a chart under the swapped convention, Ra at calculate_nodes' second result
C8_Witness ==
    /\ pc = "done"
    /\ rahu_is_desc
    /\ Placed("Ra")
    /\ Placed("Ke")
    /\ PlanetOf("Ra").lon_sidereal = Val(ketu_lon)
    /\ PlanetOf("Ra").lon_sidereal # PlanetOf("Ke").lon_sidereal

\* the eclipse table of the request is empty or cannot be loaded
TableUnavailable ==
    /\ pc \notin {"start", "planets", "nodes"}
    /\ IsNone(eclipse_file) \/ Len(Val(eclipse_file)) = 0

\* the ephemeris provider answers the request
ProviderAvailable == ~IsNone(ephemeris) /\ planet_lambdas(Val(ephemeris)).ok

\* C9: with an empty or unloadable eclipse table (the ephemeris provider
\* answering), no exception leaves compute_chart, and the chart it returns
\* has the Ascendant, the MC, 12 houses, the seven classical planets, 12
\* boxes and the aspects of the planets, neither Ra nor Ke, nodes_computed
\* false and a non-empty nodes_error.
C9_EmptyTableChart ==
    (TableUnavailable /\ ProviderAvailable) =>
        /\ pc # "raised"
        /\ exception = ""
        /\ pc = "done" =>
              LET r == Val(response)
              IN  /\ r.ascendant.lon_sidereal = asc_lon
                  /\ r.mc.lon_sidereal = mc_lambda
                  /\ Len(r.houses) = 12
                  /\ [i \in 1..Len(r.planets) |-> r.planets[i].name] = ClassicalAbbrs
                  /\ ~Placed("Ra")
                  /\ ~Placed("Ke")
                  /\ Len(r.boxes) = 12
                  /\ \A i \in 1..Len(r.planets) :
                        \E k \in 1..Len(r.aspects) :
                            r.aspects[k].planet = r.planets[i].name
                  /\ r.debug_info.nodes_computed = FALSE
                  /\ ~IsNone(r.debug_info.nodes_error)
                  /\ Val(r.debug_info.nodes_error) # ""

\* a chart returned for a request whose eclipse table is empty
C9_Witness ==
    /\ pc = "done"
    /\ ~IsNone(eclipse_file)
    /\ Len(Val(eclipse_file)) = 0
    /\ ProviderAvailable
    /\ Val(response).debug_info.nodes_error = Some("list index out of range")

\* C10: when the ephemeris provider fails (load error, or one body
\* unavailable) no exception leaves compute_chart, and the chart returned
\* places exactly the classical bodies the provider has.
C10_EphemerisFailureTolerated ==
    (~IsNone(ephemeris) /\ ~ProviderAvailable) =>
        /\ pc # "raised"
        /\ pc = "done" =>
              \A k \in 1..Len(ClassicalBodies) :
                  Placed(ClassicalAbbrs[k]) <=>
                      /\ ~Val(ephemeris).load_error
                      /\ ClassicalBodies[k] \notin Val(ephemeris).missing

\* the offsets the specification lists for the classical planets
ListedOffsets(name) ==
    CASE name \in {"Su", "Mo", "Me", "Ve"} -> {6}
      [] name = "Ma" -> {3, 6, 7}
      [] name = "Ju" -> {4, 6, 8}
      [] name = "Sa" -> {2, 6, 9}
      [] OTHER -> {}

\* the aspects of the response cast by a planet
AspectsFrom(name) ==
    {k \in 1..Len(Val(response).aspects) : Val(response).aspects[k].planet = name}

\* C11: for every placed classical planet and every offset listed for it,
\* exactly one aspect of the planet has houses_away = offset + 1, and that
\* aspect has from_house = the planet's house and to_house =
\* ((from_house - 1 + offset) mod 12) + 1, a house in 1..12; the planet casts
\* no other aspect; Mars in house 1 aspects houses {4, 7, 8} with houses_away
\* {4, 7, 8}.
C11_AspectsByOffset ==
    pc = "done" =>
        \A i \in 1..Len(Val(response).planets) :
            LET p    == Val(response).planets[i]
                cast == AspectsFrom(p.name)
                asp  == Val(response).aspects
            IN  p.name \in {"Su", "Mo", "Me", "Ve", "Ma", "Ju", "Sa"} =>
                  /\ \A off \in ListedOffsets(p.name) :
                        /\ Cardinality({k \in cast : asp[k].houses_away = off + 1}) = 1
                        /\ \A k \in cast :
                              asp[k].houses_away = off + 1 =>
                                 /\ asp[k].from_house = p.house
                                 /\ asp[k].to_house = ((p.house - 1 + off) % 12) + 1
                                 /\ asp[k].to_house \in 1..12
                  /\ Cardinality(cast) = Cardinality(ListedOffsets(p.name))
                  /\ (p.name = "Ma" /\ p.house = 1) =>
                        /\ {asp[k].to_house : k \in cast} = {4, 7, 8}
                        /\ {asp[k].houses_away : k \in cast} = {4, 7, 8}

\* a chart with Mars in house 1 and Saturn's aspect wrapping past house 12
C11_Witness ==
    /\ pc = "done"
    /\ Placed("Ma")
    /\ PlanetOf("Ma").house = 1
    /\ Placed("Sa")
    /\ PlanetOf("Sa").house + 9 > 12

\* the places (box, position) of the layout that hold an aspect, or a body
AspectPlaces ==
    UNION {{<<b, j>> : j \in 1..Len(Val(response).boxes[b].aspects)} : b \in 1..12}
BodyPlaces ==
    UNION {{<<b, j>> : j \in 1..Len(Val(response).boxes[b].bodies)} : b \in 1..12}
BoxPlacesOfAspect(a) ==
    {bj \in AspectPlaces : Val(response).boxes[bj[1]].aspects[bj[2]] = a}
BoxPlacesOfBody(name) ==
    {bj \in BodyPlaces : Val(response).boxes[bj[1]].bodies[bj[2]] = name}

\* C12: in every chart response each aspect is once in the aspect list and
\* once among the 12 boxes, in the box whose house is the aspect's to_house;
\* a box holds no aspect that is not in the list; each placed body is in
\* exactly one box, the one whose house is the body's house.
C12_AspectsAndBodiesInBoxes ==
    pc = "done" =>
        LET r == Val(response)
        IN  /\ \A k, l \in 1..Len(r.aspects) : r.aspects[k] = r.aspects[l] => k = l
            /\ \A k \in 1..Len(r.aspects) :
                  /\ Cardinality(BoxPlacesOfAspect(r.aspects[k])) = 1
                  /\ \A bj \in BoxPlacesOfAspect(r.aspects[k]) :
                        r.boxes[bj[1]].house = r.aspects[k].to_house
            /\ \A b \in 1..12 :
                  /\ r.boxes[b].house = b
                  /\ \A j \in 1..Len(r.boxes[b].aspects) :
                        \E k \in 1..Len(r.aspects) : r.aspects[k] = r.boxes[b].aspects[j]
            /\ \A i \in 1..Len(r.planets) :
                  /\ Cardinality(BoxPlacesOfBody(r.planets[i].name)) = 1
                  /\ \A bj \in BoxPlacesOfBody(r.planets[i].name) :
                        r.boxes[bj[1]].house = r.planets[i].house

\* a chart with the nodes placed, a box of two bodies and a box of two aspects
C12_Witness ==
    /\ pc = "done"
    /\ Len(Val(response).planets) = 9
    /\ \E b \in 1..12 : Len(Val(response).boxes[b].bodies) >= 2
    /\ \E b \in 1..12 : Len(Val(response).boxes[b].aspects) >= 2

\* C13: for every body placed in the chart, classical or node, is_retrograde
\* is true exactly when the reported speed is negative; a classical body whose
\* longitude one hour later is unavailable has speed 0 and is not retrograde.
C13_RetrogradeIffNegativeSpeed ==
    pc = "done" =>
        \A i \in 1..Len(Val(response).planets) :
            LET p == Val(response).planets[i]
            IN  /\ p.is_retrograde <=> p.sidereal_speed < 0
                /\ (p.name \notin {"Ra", "Ke"} /\ ~planet_lambdas_dt(Val(ephemeris)).ok) =>
                      /\ p.sidereal_speed = 0
                      /\ ~p.is_retrograde

\* a chart with a retrograde and a direct classical body and a node
C13_Witness ==
    /\ pc = "done"
    /\ Placed("Me")
    /\ PlanetOf("Me").is_retrograde
    /\ PlanetOf("Me").sidereal_speed < 0
    /\ Placed("Su")
    /\ ~PlanetOf("Su").is_retrograde
    /\ PlanetOf("Su").sidereal_speed > 0
    /\ Placed("Ra")
    /\ PlanetOf("Ra").is_retrograde

\* a chart whose bodies have no longitude one hour later
C13_WitnessNoLater ==
    /\ pc = "done"
    /\ ~planet_lambdas_dt(Val(ephemeris)).ok
    /\ Placed("Su")
    /\ PlanetOf("Su").sidereal_speed = 0

\* the codes the classification of a longitude may give: the code of an arc
\* of the table that holds it, the classifier's own name where none does
ClassifiedCodes(lam) ==
    LET holding == {i \in 1..Len(ecl_arcs) : arc_inside(lam % Circle, ecl_arcs[i])}
    IN  IF holding = {} THEN {resolve_constellation(sky_codes, lam % Circle)}
        ELSE {ecl_arcs[i].iau_code : i \in holding}

\* the sign the fixed table gives a code, 'Ar' for a code it does not hold
TableSign(code) == IF code \in ZodiacCodes THEN IAU_TO_SIGN[code] ELSE "Ar"

\* C14: the sign of the Ascendant and the sign of the MC are the fixed
\* table's sign of the constellation classified at their longitude ('Ar'
\* when the table has no such code), never a sign taken from longitude / 30;
\* mc is never None where jyotish.py:1068 tests it, so the longitude / 30
\* branch is not taken.
C14_SignsFromTable ==
    /\ ~IsNone(asc) =>
          /\ Val(asc).constellation_iau \in ClassifiedCodes(Val(asc).lon_sidereal)
          /\ Val(asc).sign = TableSign(Val(asc).constellation_iau)
    /\ pc = "planets_build" => ~IsNone(mc)
    /\ ~IsNone(mc) =>
          /\ Val(mc).lon_sidereal = mc_lambda
          /\ \E code \in ClassifiedCodes(mc_lambda) : Val(mc).sign = TableSign(code)
    /\ pc = "done" =>
          /\ Val(response).ascendant = Val(asc)
          /\ Val(response).mc = Val(mc)

\* a chart whose Ascendant and MC both have a sign other than the one of
\* their longitude / 30
C14_Witness ==
    /\ pc = "done"
    /\ Val(response).ascendant.sign
          # SIGNS[((Val(response).ascendant.lon_sidereal \div (30 * Deg)) % 12) + 1]
    /\ Val(response).mc.sign
          # SIGNS[((Val(response).mc.lon_sidereal \div (30 * Deg)) % 12) + 1]

\* the arcs of the table follow one another from 0 to 360 degrees
CoversCircle(arcs) ==
    /\ Len(arcs) > 0
    /\ arcs[1].lon_start_deg = 0
    /\ arcs[Len(arcs)].lon_end_deg = Circle
    /\ \A i \in 1..(Len(arcs) - 1) : arcs[i].lon_end_deg = arcs[i + 1].lon_start_deg

\* the codes of the arcs [start, end) of the table that hold a longitude
ArcCodesHolding(lam) ==
    {ecl_arcs[i].iau_code : i \in {j \in 1..Len(ecl_arcs) :
        ecl_arcs[j].lon_start_deg <= lam /\ lam < ecl_arcs[j].lon_end_deg}}

\* C15: with an arc table covering the whole circle and the Ascendant solved
\* to A, the Ascendant's sign is the fixed table's sign of the code of the arc
\* that holds A; house 1 has the Ascendant's sign, house i the sign i - 1
\* places later in zodiac order, and the 12 houses have 12 distinct signs.
C15_AscSignOfArc ==
    (pc = "done" /\ CoversCircle(ecl_arcs)) =>
        LET r == Val(response)
            A == r.ascendant.lon_sidereal
        IN  /\ ArcCodesHolding(A) # {}
            /\ \A code \in ArcCodesHolding(A) :
                  code \in ZodiacCodes /\ r.ascendant.sign = IAU_TO_SIGN[code]
            /\ r.houses[1] = r.ascendant.sign
            /\ \A i \in 1..12 :
                  r.houses[i] = SIGNS[((SignIndex(r.ascendant.sign) + i - 1) % 12) + 1]
            /\ Cardinality({r.houses[i] : i \in 1..12}) = 12

\* calculate_nodes answered this request and the nodes were labelled
NodesLabelled == pc \notin {"start", "planets", "nodes"} /\ nodes_out.ok

\* the convention the specification's order gives: the request's flag when
\* there is one, else the environment's RAHU_IS_DESCENDING read as an integer
\* ("1" is true; unset, or a text that is no integer, is not), else false
ResolvedConvention ==
    IF Val(request).rahu_is_descending = Some(TRUE) THEN TRUE
    ELSE IF Val(request).rahu_is_descending = Some(FALSE) THEN FALSE
    ELSE environ = "1"

\* C17: the convention is the request's flag when the request has one,
\* whatever the environment says, else the environment's value, else the
\* server default; Rahu gets calculate_nodes' second (descending) longitude
\* and Ketu the first exactly when the convention is true, and the two
\* longitudes placed are the two interpolated ones, unchanged.
C17_ConventionOrder ==
    NodesLabelled =>
        /\ rahu_is_desc = ResolvedConvention
        /\ rahu_lon = Some(nodes_out.val[1])
        /\ ketu_lon = Some(nodes_out.val[2])
        /\ lambdas_map["Rahu"] = nodes_out.val[IF ResolvedConvention THEN 2 ELSE 1]
        /\ lambdas_map["Ketu"] = nodes_out.val[IF ResolvedConvention THEN 1 ELSE 2]
        /\ pc = "done" =>
              /\ Val(response).debug_info.rahu_is_desc_used = ResolvedConvention
              /\ PlanetOf("Ra").lon_sidereal = nodes_out.val[IF ResolvedConvention THEN 2 ELSE 1]
              /\ PlanetOf("Ke").lon_sidereal = nodes_out.val[IF ResolvedConvention THEN 1 ELSE 2]

\* a chart whose request says false while the environment says true
C17_Witness ==
    /\ pc = "done"
    /\ nodes_out.ok
    /\ Val(request).rahu_is_descending = Some(FALSE)
    /\ environ = "1"
    /\ PlanetOf("Ra").lon_sidereal = nodes_out.val[1]
    /\ PlanetOf("Ke").lon_sidereal = nodes_out.val[2]
    /\ nodes_out.val[1] # nodes_out.val[2]

\* the request has no flag and the environment no RAHU_IS_DESCENDING
DefaultConvention ==
    /\ NodesLabelled
    /\ IsNone(Val(request).rahu_is_descending)
    /\ environ = "unset"

----------------------------------------------------------------------------
(* SpecProcess: one server process, its import and its chart requests *)

MaxRequests == 3

\* the worker threads that run chart_endpoint, main.py:26-28 (a def
\* endpoint runs in the server's thread pool)
Threads == {"t1", "t2"}

\* the module-level block of jyotish.py:44-56: the table is read from
\* ephe/iau_arcs.json when the file exists, computed and written otherwise;
\* any exception on the way leaves []
load_iau_arcs(disk, codes) ==
    IF disk.exists
    THEN IF disk.readable THEN disk.content ELSE <<>>
    ELSE IF disk.compute_ok /\ disk.write_ok
         THEN compute_ecliptic_arcs(codes, sky_step(codes))
         ELSE <<>>

\* ephe/iau_arcs.json after the block: written when the table was computed
\* and the dump succeeded
disk_after_import(disk, codes) ==
    IF ~disk.exists /\ disk.compute_ok /\ disk.write_ok
    THEN [disk EXCEPT !.exists = TRUE, !.readable = TRUE,
                      !.content = compute_ecliptic_arcs(codes, sky_step(codes))]
    ELSE disk

\* the classifier along the ecliptic: alternating constellations behind
\* any first sample
ProcessSkies ==
    {c \in SampleSeqs :
        \A k \in 2..(Len(c) - 1) : c[k] = IF k % 2 = 0 THEN "Ari" ELSE "Tau"}

\* pre-seeded tables that do not cover the circle: one with two gaps, one
\* of a single arc [0, 360)
GapTable ==
    <<[iau_code |-> "Psc", lon_start_deg |-> 0, lon_end_deg |-> 90 * Deg],
      [iau_code |-> "Tau", lon_start_deg |-> 180 * Deg, lon_end_deg |-> 270 * Deg]>>
OneArcTable == <<[iau_code |-> "Psc", lon_start_deg |-> 0, lon_end_deg |-> Circle]>>

\* no file, with a build and a dump that work or raise (a dump raises in a
\* read-only directory); a file that is not JSON; the pre-seeded tables
ArcDisks ==
    {[exists |-> FALSE, readable |-> FALSE, content |-> <<>>,
      compute_ok |-> c, write_ok |-> w] :
        c \in BOOLEAN, w \in BOOLEAN}
    \cup {[exists |-> TRUE, readable |-> FALSE, content |-> <<>>,
           compute_ok |-> TRUE, write_ok |-> TRUE]}
    \cup {[exists |-> TRUE, readable |-> TRUE, content |-> t,
           compute_ok |-> TRUE, write_ok |-> TRUE] : t \in {GapTable, OneArcTable}}

\* the Ascendant longitudes of the requests, one beyond 360
ProcessQueries == {45 * Deg, 135 * Deg, Circle + 200 * Deg}

IdleWorker ==
    [pc |-> "idle", dt |-> 0, lam |-> 0, iau |-> NoIauResult, out |-> Raised("")]

InitProcess ==
    /\ pc = "import"
    /\ sky_codes \in ProcessSkies
    /\ ecl_arcs = <<>>
    /\ arc_lambda = 0
    /\ iau_result = NoIauResult
    /\ eclipse_file \in ChartEclipseFiles
    /\ dt_utc = 0
    /\ nodes_out = Raised("")
    /\ arc_builds = 0
    /\ eclipse_loads = 0
    /\ requests = 0
    /\ arcs_disk \in {Some(d) : d \in ArcDisks}
    /\ workers = [t \in Threads |-> IdleWorker]
    /\ HousesIdle
    /\ ChartIdle
    /\ AscIdle

\* import of app.jyotish, jyotish.py:44-56
ImportModule ==
    /\ pc = "import"
    /\ ecl_arcs' = load_iau_arcs(Val(arcs_disk), sky_codes)
    /\ arcs_disk' = Some(disk_after_import(Val(arcs_disk), sky_codes))
    /\ arc_builds' = arc_builds + 1
    /\ pc' = "serving"
    /\ UNCHANGED <<sky_codes, arc_lambda, iau_result>>
    /\ UNCHANGED <<eclipse_loads, requests, workers>>
    /\ UNCHANGED <<houseVars, nodeVars, chartVars>>
    /\ UNCHANGED ascVars

\* a thread takes up a request: chart_endpoint, main.py:26-28
StartRequest(t) ==
    /\ pc = "serving"
    /\ workers[t].pc = "idle"
    /\ requests < MaxRequests
    /\ \E d \in ChartTimes, L \in ProcessQueries :
          workers' = [workers EXCEPT ![t] = [IdleWorker EXCEPT
                          !.pc = "asc", !.dt = d, !.lam = L]]
    /\ requests' = requests + 1
    /\ UNCHANGED <<pc, arc_builds, eclipse_loads, arcs_disk>>
    /\ UNCHANGED <<houseVars, arcVars, nodeVars, chartVars>>
    /\ UNCHANGED ascVars

\* ecl_arcs = IAU_ECLIPTIC_ARCS and the Ascendant's lookup, jyotish.py:242-264
ClassifyAscendant(t) ==
    /\ workers[t].pc = "asc"
    /\ workers' = [workers EXCEPT ![t].pc = "nodes",
                       ![t].iau = iau_for_lon(workers[t].lam, ecl_arcs, sky_codes)]
    /\ UNCHANGED <<pc, arc_builds, eclipse_loads, requests, arcs_disk>>
    /\ UNCHANGED <<houseVars, arcVars, nodeVars, chartVars>>
    /\ UNCHANGED ascVars

\* calculate_nodes(dt_utc), jyotish.py:720: nodes.py:82 reads and parses
\* data/eclipse_nodes.json in every call
RequestNodes(t) ==
    /\ workers[t].pc = "nodes"
    /\ workers' = [workers EXCEPT ![t].pc = "respond",
                       ![t].out = calculate_nodes(workers[t].dt, eclipse_file)]
    /\ eclipse_loads' = eclipse_loads + 1
    /\ UNCHANGED <<pc, arc_builds, requests, arcs_disk>>
    /\ UNCHANGED <<houseVars, arcVars, nodeVars, chartVars>>
    /\ UNCHANGED ascVars

\* the response is returned and the thread is free again
FinishRequest(t) ==
    /\ workers[t].pc = "respond"
    /\ workers' = [workers EXCEPT ![t] = IdleWorker]
    /\ UNCHANGED <<pc, arc_builds, eclipse_loads, requests, arcs_disk>>
    /\ UNCHANGED <<houseVars, arcVars, nodeVars, chartVars>>
    /\ UNCHANGED ascVars

NextProcess ==
    \/ ImportModule
    \/ \E t \in Threads : StartRequest(t)
    \/ \E t \in Threads : ClassifyAscendant(t)
    \/ \E t \in Threads : RequestNodes(t)
    \/ \E t \in Threads : FinishRequest(t)

SpecProcess == InitProcess /\ [][NextProcess]_vars

\* C18: over any sequence or interleaving of chart requests in one process,
\* the arc table and the eclipse-node table are each built or loaded at most
\* once.  The code breaks it for the eclipse-node table: calculate_nodes
\* reads and parses data/eclipse_nodes.json again in every request.
C18_TablesLoadedOnce ==
    /\ arc_builds <= 1
    /\ eclipse_loads <= 1

\* the request of thread t has looked its Ascendant up
Classified(t) == workers[t].pc \in {"nodes", "respond"}

\* the import of the arc table failed: nothing readable was left on disk
ImportFailed ==
    /\ pc = "serving"
    /\ ~(Val(arcs_disk).exists /\ Val(arcs_disk).readable)

\* some arc of the table holds x under the half-open rule
Covered(x, arcs) ==
    \E i \in 1..Len(arcs) :
        LET s == arcs[i].lon_start_deg % Circle
            e == arcs[i].lon_end_deg % Circle
        IN  \/ s <= e /\ s <= x /\ x < e
            \/ s > e /\ (s <= x \/ x < e)

\* the external classifier's label of the ecliptic point at x
ClassifierLabel(x) ==
    FullName(sky_codes[((x % Circle) \div (Circle \div (Len(sky_codes) - 1))) + 1])

\* C19: when building or loading the arc table fails the table is empty,
\* and every lookup then returns the external classifier's label of the
\* point; the same fallback serves any longitude that no arc of a malformed
\* table covers.
C19_FallbackToClassifier ==
    /\ ImportFailed => ecl_arcs = <<>>
    /\ \A t \in Threads :
          Classified(t) /\ ~Covered(workers[t].lam % Circle, ecl_arcs) =>
              /\ workers[t].iau.fallback
              /\ workers[t].iau.code = ClassifierLabel(workers[t].lam)

\* the table was computed but could not be written, and a request's lookup
\* got the classifier's label
C19_Witness ==
    \E t \in Threads :
        /\ ImportFailed
        /\ Val(arcs_disk).compute_ok
        /\ ecl_arcs = <<>>
        /\ Classified(t)
        /\ workers[t].iau.fallback
        /\ workers[t].iau.code \in {"Aries", "Taurus", "Pisces"}

----------------------------------------------------------------------------
(* SpecAsc: find_constellational_ascendant, jyotish.py:129-237 *)

\* step_coarse and step_fine, jyotish.py:164 and 178
step_coarse == 5 * Deg
step_fine == 1 * Deg

\* The sky of the search is held as h: the longitudes where the altitude
\* of the ecliptic changes sign (crossings), for a sky without a crossing
\* the longitude where the altitude comes closest to zero (min_at), and the
\* azimuth at each crossing (az).  The altitude is zero at a crossing and
\* grows with the distance from the crossings.
alt_cached(h, lambda_deg) ==
    LET x     == lambda_deg % Circle
        below == Cardinality({c \in h.crossings : c < x})
        mag   == IF h.crossings = {}
                 THEN Deg + AngularDistance(x, h.min_at)
                 ELSE SetMin({AngularDistance(x, c) : c \in h.crossings})
    IN  IF x \in h.crossings THEN 0
        ELSE IF below % 2 = 0 THEN mag ELSE -mag

\* az_at_lambda(root), jyotish.py:150-154
az_at_lambda(h, root) ==
    IF (root % Circle) \in h.crossings THEN h.az[root % Circle] ELSE 0

\* lons = np.arange(0.0, 360.0 + step, step): sample i (1-based) lies at
\* (i - 1) * step, the last one at 360
scan_len(step) == (Circle \div step) + 1
scan_lon(step, i) == (i - 1) * step

\* the loop body of jyotish.py:169-174 (and 181-186) for the samples i, i + 1
bracket_at(h, step, i) ==
    LET a == alt_cached(h, scan_lon(step, i))
        b == alt_cached(h, scan_lon(step, i + 1))
    IN  IF a = 0
        THEN [found |-> TRUE, la |-> scan_lon(step, i), lb |-> scan_lon(step, i)]
        ELSE IF a * b < 0
        THEN [found |-> TRUE, la |-> scan_lon(step, i), lb |-> scan_lon(step, i + 1)]
        ELSE [found |-> FALSE, la |-> 0, lb |-> 0]

bracket_found(b) == b.found

\* the intervals of one scan, in the order of the samples
scan_intervals(h, step) ==
    LET all == [i \in 1..(scan_len(step) - 1) |-> bracket_at(h, step, i)]
        hit == SelectSeq(all, bracket_found)
    IN  [k \in 1..Len(hit) |-> [la |-> hit[k].la, lb |-> hit[k].lb]]

\* what brentq (or the bisection used without scipy) can do on a bracket
\* with a sign change, jyotish.py:198-212: converge to a zero of the
\* bracket, or raise (caught at 216)
brentq(h, la, lb) ==
    {Returned(c) : c \in {c \in h.crossings : la < c /\ c < lb}}
    \cup {Raised("failed to converge")}

\* the roots after the loop body of jyotish.py:189-217 has run on bracket
\* iv with root-finder outcome r
roots_after(h, rts, iv, r) ==
    IF iv.la = iv.lb
    THEN Append(rts, <<iv.la % Circle, az_at_lambda(h, iv.la) % Circle>>)
    ELSE IF alt_cached(h, iv.la) * alt_cached(h, iv.lb) > 0 THEN rts
    ELSE IF r.ok
    THEN Append(rts, <<r.val % Circle, az_at_lambda(h, r.val) % Circle>>)
    ELSE rts

\* 60.0 <= r[1] <= 120.0, jyotish.py:220
in_window(r) == 60 * Deg <= r[2] /\ r[2] <= 120 * Deg

\* key of the sort of jyotish.py:223
az_key(r) == Abs(((r[2] - 90 * Deg + 180 * Deg) % Circle) - 180 * Deg)

\* the first element of sorted(rts, key = az_key): the sort is stable
sorted_first(rts) ==
    LET best == SetMin({az_key(rts[i]) : i \in 1..Len(rts)})
    IN  rts[SetMin({i \in 1..Len(rts) : az_key(rts[i]) = best})]

\* lons[int(np.argmin(np.abs(alts)))], jyotish.py:229-230: the first
\* sample of the last scan whose |altitude| is least
closest_sample(h, step) ==
    LET n    == scan_len(step)
        best == SetMin({Abs(alt_cached(h, scan_lon(step, i))) : i \in 1..n})
    IN  scan_lon(step, SetMin({i \in 1..n :
                                  Abs(alt_cached(h, scan_lon(step, i))) = best}))

\* a plausible slip: the first root is taken whatever its azimuth
chosen_longitude_FirstRoot(h, rts, step) ==
    IF rts # <<>> THEN rts[1][1] ELSE closest_sample(h, step)

\* candidates and chosen_lon, jyotish.py:219-230
chosen_longitude(h, rts, step) ==
    LET window     == SelectSeq(rts, in_window)
        candidates == IF window = <<>> /\ rts # <<>> THEN <<sorted_first(rts)>>
                      ELSE window
    IN  IF candidates # <<>> THEN candidates[1][1] ELSE closest_sample(h, step)

\* the azimuths tried at a crossing: inside the rising window, on its
\* centre, outside it on either side
AzChoices == {30 * Deg, 65 * Deg, 90 * Deg, 110 * Deg, 200 * Deg, 280 * Deg}

\* the crossings tried: two that the 5-degree scan brackets; two inside one
\* 5-degree cell, for the 1-degree scan; two on samples of the scan; two
\* inside one 1-degree cell, that no scan sees
CrossingSets ==
    {{12 * Deg + Deg \div 2, 192 * Deg + Deg \div 2},
     {11 * Deg + Deg \div 2, 13 * Deg + Deg \div 2},
     {20 * Deg, 200 * Deg},
     {11 * Deg + Deg \div 4, 11 * Deg + Deg \div 2}}

HorizonCases ==
    UNION {{[crossings |-> K, min_at |-> 0, az |-> f] : f \in [K -> AzChoices]} :
              K \in CrossingSets}
    \cup {[crossings |-> {}, min_at |-> m, az |-> <<>>] :
             m \in {37 * Deg + Deg \div 4, 359 * Deg + (3 * Deg) \div 4}}

InitAsc ==
    /\ pc = "coarse"
    /\ horizon \in {Some(h) : h \in HorizonCases}
    /\ scan_steps = <<>>
    /\ intervals = <<>>
    /\ next_interval = 0
    /\ roots = <<>>
    /\ chosen_lon = None
    /\ HousesIdle
    /\ ArcsIdle
    /\ NodesIdle
    /\ ChartIdle
    /\ ProcIdle

\* the coarse scan, jyotish.py:163-174
CoarseScan ==
    /\ pc = "coarse"
    /\ scan_steps' = <<step_coarse>>
    /\ intervals' = scan_intervals(Val(horizon), step_coarse)
    /\ pc' = IF intervals' = <<>> THEN "fine" ELSE "roots"
    /\ next_interval' = 1
    /\ UNCHANGED <<horizon, roots, chosen_lon>>
    /\ UNCHANGED <<houseVars, arcVars, nodeVars, chartVars, procVars>>

\* if not intervals: the finer scan, jyotish.py:176-186
FineScan ==
    /\ pc = "fine"
    /\ scan_steps' = Append(scan_steps, step_fine)
    /\ intervals' = scan_intervals(Val(horizon), step_fine)
    /\ pc' = "roots"
    /\ UNCHANGED <<horizon, next_interval, roots, chosen_lon>>
    /\ UNCHANGED <<houseVars, arcVars, nodeVars, chartVars, procVars>>

\* one turn of for (la, lb) in intervals, jyotish.py:189-217
SolveRoot ==
    /\ pc = "roots"
    /\ next_interval <= Len(intervals)
    /\ LET iv == intervals[next_interval]
       IN  \E r \in brentq(Val(horizon), iv.la, iv.lb) :
              roots' = roots_after(Val(horizon), roots, iv, r)
    /\ next_interval' = next_interval + 1
    /\ UNCHANGED <<pc, horizon, scan_steps, intervals, chosen_lon>>
    /\ UNCHANGED <<houseVars, arcVars, nodeVars, chartVars, procVars>>

\* the choice among the roots, jyotish.py:219-230
ChooseLongitude ==
    /\ pc = "roots"
    /\ next_interval > Len(intervals)
    /\ chosen_lon' = Some(chosen_longitude(Val(horizon), roots,
                                           scan_steps[Len(scan_steps)]))
    /\ pc' = "chosen"
    /\ UNCHANGED <<horizon, scan_steps, intervals, next_interval, roots>>
    /\ UNCHANGED <<houseVars, arcVars, nodeVars, chartVars, procVars>>

NextAsc == CoarseScan \/ FineScan \/ SolveRoot \/ ChooseLongitude

SpecAsc == InitAsc /\ [][NextAsc]_vars

\* the roots whose azimuth lies in the rising window [60, 120]
RisingRoots == {i \in 1..Len(roots) : 60 * Deg <= roots[i][2] /\ roots[i][2] <= 120 * Deg}

\* the distance of root i's azimuth from due east
EastGap(i) == AngularDistance(roots[i][2], 90 * Deg)

\* the samples of the scan that ran last, and the sky's altitude there
LastStep == scan_steps[Len(scan_steps)]
LastSamples == {k * LastStep : k \in 0..(Circle \div LastStep)}
AltitudeAt(x) == alt_cached(Val(horizon), x)

\* the 5-degree scan sees a zero or a change of sign
CoarseBracket ==
    \E k \in 0..71 :
        \/ AltitudeAt(k * 5 * Deg) = 0
        \/ AltitudeAt(k * 5 * Deg) * AltitudeAt((k + 1) * 5 * Deg) < 0

\* C21: the 1-degree scan runs only if the 5-degree scan found no bracket;
\* the longitude returned is in [0, 360); it is a root with azimuth in
\* [60, 120] if there is one, else the root whose azimuth is closest to 90
\* if there is a root, else the scan sample whose altitude is closest to 0.
C21_AscendantPriority ==
    /\ Len(scan_steps) = 2 => ~CoarseBracket
    /\ pc = "chosen" =>
          LET c == Val(chosen_lon)
          IN  /\ 0 <= c /\ c < Circle
              /\ RisingRoots # {} => \E i \in RisingRoots : roots[i][1] = c
              /\ RisingRoots = {} /\ roots # <<>> =>
                    \E i \in 1..Len(roots) :
                        /\ roots[i][1] = c
                        /\ \A j \in 1..Len(roots) : EastGap(i) <= EastGap(j)
              /\ roots = <<>> =>
                    /\ c \in LastSamples
                    /\ \A x \in LastSamples : Abs(AltitudeAt(c)) <= Abs(AltitudeAt(x))

\* the second of two roots is the one chosen: it rises in the window and
\* the first does not
C21_Witness ==
    /\ pc = "chosen"
    /\ Len(roots) = 2
    /\ RisingRoots = {2}
    /\ Val(chosen_lon) = roots[2][1]

\* C22: when more than one root has its azimuth in the rising window, the
\* longitude returned is the one whose azimuth is nearest to 90.  The code
\* returns the first of them in scan order.
C22_NearestToEast ==
    pc = "chosen" /\ Cardinality(RisingRoots) > 1 =>
        \E i \in RisingRoots :
            /\ roots[i][1] = Val(chosen_lon)
            /\ \A j \in RisingRoots : EastGap(i) <= EastGap(j)

\* the MC validation has run
McValidated == pc \in {"cusps", "rows", "placed"} /\ asc_lon \in AscInputs

\* the roots of the MC search whose |RA - LST| is least
SolvedRoots ==
    {mc_roots[i][1] : i \in {i \in 1..Len(mc_roots) :
        \A j \in 1..Len(mc_roots) :
            AngularDistance(mc_roots[i][2], 0) <= AngularDistance(mc_roots[j][2], 0)}}

\* a root r is about a quarter circle from the Ascendant
NearQuarter(r) ==
    /\ AngularDistance(r, asc_lon) >= 60 * Deg
    /\ AngularDistance(r, asc_lon) <= 120 * Deg

\* C23: the MC used for the cusps is the solved root (the root with the
\* smallest |RA - LST|) exactly when a root was found and its angular
\* distance d to the Ascendant satisfies |d - 90| <= 30; in every other case
\* it is (Ascendant + 90) mod 360.  So the MC is never missing and lies
\* within [60, 120] of the Ascendant.
C23_McSolvedOrFallback ==
    McValidated =>
        /\ \/ /\ \E r \in SolvedRoots : NearQuarter(r) /\ mc_lambda = r
           \/ /\ \A r \in SolvedRoots : ~NearQuarter(r)
              /\ mc_lambda = (asc_lon + 90 * Deg) % Circle
        /\ \A r \in SolvedRoots : mc_lambda = r => NearQuarter(r)
        /\ NearQuarter(mc_lambda)

\* the search ended with the MC and the jump, the jump first in scan
\* order, and the MC was accepted
C23_Witness ==
    /\ McValidated
    /\ Len(mc_roots) = 2
    /\ mc_roots[1][2] # 0
    /\ mc_lambda = mc_roots[2][1]
    /\ mc_lambda # (asc_lon + 90 * Deg) % Circle

----------------------------------------------------------------------------
(* Claims about the node interpolation, checked under SpecNodes *)

\* calculate_nodes has returned for a table that could be read
NodesCalculated == pc = "nodes_done" /\ ~IsNone(eclipse_file)

IsRahu(entry) == entry.node = "Rahu"
IsKetu(entry) == entry.node = "Ketu"
RahuEntries == SelectSeq(Val(eclipse_file), IsRahu)
KetuEntries == SelectSeq(Val(eclipse_file), IsKetu)
BothLabels == RahuEntries # <<>> /\ KetuEntries # <<>>

\* the list whose interpolation calculate_nodes returns as its first result
InterpolatedList == IF BothLabels THEN RahuEntries ELSE Val(eclipse_file)

\* the entries that bracket the query: the last one at or before it and
\* the first one after it
HasBracket ==
    /\ \E i \in 1..Len(InterpolatedList) : InterpolatedList[i].datetime <= dt_utc
    /\ \E i \in 1..Len(InterpolatedList) : InterpolatedList[i].datetime > dt_utc
PrevEntry ==
    InterpolatedList[CHOOSE i \in 1..Len(InterpolatedList) :
        /\ InterpolatedList[i].datetime <= dt_utc
        /\ \A j \in (i + 1)..Len(InterpolatedList) : InterpolatedList[j].datetime > dt_utc]
NextEntry ==
    InterpolatedList[CHOOSE i \in 1..Len(InterpolatedList) :
        /\ InterpolatedList[i].datetime > dt_utc
        /\ \A j \in 1..(i - 1) : InterpolatedList[j].datetime <= dt_utc]

\* C24: for a query strictly before the first entry of the list
\* interpolate_between_nodes returns the first entry's longitude unchanged,
\* and for a query at or after the last entry the last entry's longitude
\* unchanged.
C24_ClampedAtEnds ==
    NodesCalculated /\ InterpolatedList # <<>> =>
        LET first == InterpolatedList[1]
            last  == InterpolatedList[Len(InterpolatedList)]
        IN  /\ dt_utc < first.datetime =>
                  nodes_out.ok /\ nodes_out.val[1] = first.node_longitude
            /\ dt_utc >= last.datetime =>
                  nodes_out.ok /\ nodes_out.val[1] = last.node_longitude

\* a query at the instant two last entries share, with different longitudes
C24_Witness ==
    /\ NodesCalculated
    /\ Len(InterpolatedList) >= 2
    /\ InterpolatedList[Len(InterpolatedList)].datetime = dt_utc
    /\ InterpolatedList[Len(InterpolatedList) - 1].datetime = dt_utc
    /\ InterpolatedList[1].node_longitude
           # InterpolatedList[Len(InterpolatedList)].node_longitude
    /\ nodes_out.ok
    /\ nodes_out.val[1] = InterpolatedList[Len(InterpolatedList)].node_longitude

\* C25: for a query between two bracketing entries with longitudes p and n
\* the result is in [0, 360) and lies on the shorter arc between p and n, at
\* the query's share of the way from p to n; it is p at weight 0.
C25_ShorterArc ==
    NodesCalculated /\ InterpolatedList # <<>> /\ HasBracket =>
        LET p == PrevEntry.node_longitude
            n == NextEntry.node_longitude
            r == nodes_out.val[1]
        IN  /\ nodes_out.ok
            /\ 0 <= r /\ r < Circle
            /\ AngularDistance(r, p) + AngularDistance(r, n) = AngularDistance(p, n)
            /\ AngularDistance(r, p) * (NextEntry.datetime - PrevEntry.datetime)
                  = AngularDistance(p, n) * (dt_utc - PrevEntry.datetime)
            /\ dt_utc = PrevEntry.datetime => r = p

\* a query inside a bracket whose longitudes lie across 0/360
C25_Witness ==
    /\ NodesCalculated
    /\ InterpolatedList # <<>>
    /\ HasBracket
    /\ PrevEntry.node_longitude = 350 * Deg
    /\ NextEntry.node_longitude = 20 * Deg
    /\ dt_utc > PrevEntry.datetime
    /\ nodes_out.ok
    /\ nodes_out.val[1] < 20 * Deg

\* the table with the longitude of every Ketu entry replaced by L
WithKetuAt(L) ==
    [i \in 1..Len(Val(eclipse_file)) |->
        IF Val(eclipse_file)[i].node = "Ketu"
        THEN [Val(eclipse_file)[i] EXCEPT !.node_longitude = L]
        ELSE Val(eclipse_file)[i]]

\* the table without its first Ketu entry
WithoutFirstKetu ==
    LET t == Val(eclipse_file)
        k == CHOOSE i \in 1..Len(t) : t[i].node = "Ketu" /\ \A j \in 1..(i - 1) : t[j].node # "Ketu"
    IN  [i \in 1..(Len(t) - 1) |-> IF i < k THEN t[i] ELSE t[i + 1]]

\* the interpolation of the brackets of InterpolatedList, or its clamp
ExpectedLongitude ==
    IF HasBracket
    THEN LET p == PrevEntry.node_longitude
             n == NextEntry.node_longitude
             d == ((n - p + 180 * Deg) % Circle) - 180 * Deg
             g == IF n - p = 180 * Deg \/ p - n = 180 * Deg THEN n - p ELSE d
         IN  (p + (g * (dt_utc - PrevEntry.datetime))
                     \div (NextEntry.datetime - PrevEntry.datetime)) % Circle
    ELSE IF dt_utc < InterpolatedList[1].datetime
    THEN InterpolatedList[1].node_longitude
    ELSE InterpolatedList[Len(InterpolatedList)].node_longitude

\* C29: with a Rahu and a Ketu entry in the table the longitudes returned
\* depend on the Rahu entries only: a table with the same Rahu entries and
\* other non-empty Ketu entries gives the same result.  With a label
\* missing, the result is interpolated over all entries whatever their
\* label.
C29_RahuEntriesOnly ==
    NodesCalculated /\ Val(eclipse_file) # <<>> =>
        /\ nodes_out.ok
        /\ nodes_out.val[1] = ExpectedLongitude
        /\ BothLabels =>
              /\ \A L \in NodeLons :
                    calculate_nodes(dt_utc, Some(WithKetuAt(L))) = nodes_out
              /\ Len(KetuEntries) > 1 =>
                    calculate_nodes(dt_utc, Some(WithoutFirstKetu)) = nodes_out

\* a Ketu entry at the query's instant, between two Rahu entries, and the
\* result is the Rahu interpolation
C29_Witness ==
    /\ NodesCalculated
    /\ Len(RahuEntries) = 2
    /\ Len(KetuEntries) = 1
    /\ KetuEntries[1].datetime = dt_utc
    /\ RahuEntries[1].datetime < dt_utc
    /\ RahuEntries[2].datetime > dt_utc
    /\ RahuEntries[1].node_longitude # RahuEntries[2].node_longitude
    /\ nodes_out.ok
    /\ nodes_out.val[1] # KetuEntries[1].node_longitude
    /\ nodes_out.val[1] # (KetuEntries[1].node_longitude + 180 * Deg) % Circle

\* C30: for every non-empty time-sorted list, duplicate instants allowed,
\* and every query, interpolate_between_nodes never divides by zero: when it
\* interpolates, prev.time <= query < next.time, so the gap is positive and
\* the weight is in [0, 1).
C30_NoDivisionByZero ==
    NodesCalculated /\ InterpolatedList # <<>> =>
        LET idx == bisect_right(InterpolatedList, dt_utc)
        IN  /\ nodes_out.ok
            /\ interpolate_between_nodes(dt_utc, InterpolatedList).ok
            /\ (idx # 0 /\ idx # Len(InterpolatedList)) =>
                  /\ InterpolatedList[idx].datetime <= dt_utc
                  /\ dt_utc < InterpolatedList[idx + 1].datetime
                  /\ InterpolatedList[idx] = PrevEntry
                  /\ InterpolatedList[idx + 1] = NextEntry

\* a query at the instant two entries share, with a later entry after them
C30_Witness ==
    /\ NodesCalculated
    /\ Len(InterpolatedList) = 3
    /\ InterpolatedList[1].datetime = dt_utc
    /\ InterpolatedList[2].datetime = dt_utc
    /\ InterpolatedList[3].datetime > dt_utc
    /\ InterpolatedList[1].node_longitude # InterpolatedList[2].node_longitude
    /\ nodes_out.ok
    /\ nodes_out.val[1] = InterpolatedList[2].node_longitude

\* C26: whenever Rahu and Ketu are placed, the speed reported for each is
\* the fitted rate if there is one and its magnitude is at least 1e-4, and
\* the canonical rate -0.0529539 degrees/day in every other case; so the
\* reported speed never has a magnitude below 1e-4.
C26_NodeSpeedFloor ==
    pc = "done" /\ Placed("Ra") =>
        \A nm \in {"Ra", "Ke"} :
            /\ Placed(nm)
            /\ PlanetOf(nm).sidereal_speed =
                  IF ~IsNone(node_fit) /\ Abs(Val(node_fit)) >= SPEED_EPS
                  THEN Val(node_fit) ELSE CANONICAL_NODE_SPEED
            /\ Abs(PlanetOf(nm).sidereal_speed) >= SPEED_EPS

\* a fit below 1e-4 was replaced by the canonical rate
C26_Witness ==
    /\ pc = "done"
    /\ Placed("Ra")
    /\ Placed("Ke")
    /\ ~IsNone(node_fit)
    /\ Val(node_fit) # 0
    /\ Abs(Val(node_fit)) < SPEED_EPS
    /\ PlanetOf("Ra").sidereal_speed = CANONICAL_NODE_SPEED
    /\ PlanetOf("Ke").sidereal_speed = CANONICAL_NODE_SPEED

\* the arcs [start, end) of the table that hold a longitude
ArcsHolding(lam) ==
    {j \in 1..Len(ecl_arcs) :
        ecl_arcs[j].lon_start_deg <= lam /\ lam < ecl_arcs[j].lon_end_deg}

\* max(0, 1 - 2 * angularDistance(lam, midpoint) / width) of arc j, times
\* the arc's width
BellTimesWidth(lam, j) ==
    LET w   == ecl_arcs[j].lon_end_deg - ecl_arcs[j].lon_start_deg
        mid == ecl_arcs[j].lon_start_deg + w \div 2
    IN  Max2(0, w - 2 * AngularDistance(lam, mid))

\* C27: for every classical body whose arc-based constellation code is in
\* the arc table, the house strength is max(0, 1 - 2 * angularDistance(
\* longitude, midpoint) / width) of the arc that holds the body's longitude,
\* within [0, 1], also when the code occurs in more than one arc.
\* The code takes the first arc of the table with the body's code: a body
\* in the second arc of a split constellation is measured against the first.
C27_StrengthOfHoldingArc ==
    pc = "done" =>
        \A i \in 1..Len(Val(response).planets) :
            LET p    == Val(response).planets[i]
                code == arc_rows[i].iauConstellation
            IN  (/\ p.name \notin {"Ra", "Ke"}
                 /\ \E j \in 1..Len(ecl_arcs) : ecl_arcs[j].iau_code = code) =>
                    /\ 0 <= p.house_strength.num
                    /\ p.house_strength.num <= p.house_strength.den
                    /\ \A j \in ArcsHolding(p.lon_sidereal) :
                          p.house_strength.num
                                * (ecl_arcs[j].lon_end_deg - ecl_arcs[j].lon_start_deg)
                              = BellTimesWidth(p.lon_sidereal, j) * p.house_strength.den

\* C28: in every chart response each body's sign is the sign of the house
\* it is reported in, whether the sign came from the constellation-to-sign
\* table or, for a code missing from that table, from the Ascendant's sign
\* and the Porphyry house index; and the body's house is in 1..12.
C28_SignOfReportedHouse ==
    pc = "done" =>
        \A i \in 1..Len(Val(response).planets) :
            LET p == Val(response).planets[i]
            IN  /\ p.house \in 1..12
                /\ p.sign = Val(response).houses[p.house]

\* a chart away from Aries rising with a body whose constellation has no
\* sign, in a house that is not the first, and a body whose constellation
\* has one
C28_Witness ==
    /\ pc = "done"
    /\ Val(response).houses[1] # "Ar"
    /\ \E i \in 1..Len(Val(response).planets) :
          /\ Val(response).planets[i].iau_constellation \notin ZodiacCodes
          /\ Val(response).planets[i].house # 1
          /\ Val(response).planets[i].sign
                # SIGNS[((Val(response).planets[i].lon_sidereal \div (30 * Deg)) % 12) + 1]
    /\ \E i \in 1..Len(Val(response).planets) :
          Val(response).planets[i].iau_constellation \in ZodiacCodes

====
